---------------------------- MODULE Spec2Model ----------------------------
(***************************************************************************)
(* Timeline Synchronization & Assembly Engine of the video narration       *)
(* backend: the Timeline Resolver (pipeline_service.py), the Surgical       *)
(* Rebuilder (use_cases/sync_timeline.py) and the Gap-Aware Assembler and  *)
(* interval arithmetic of video_service.py.                                *)
(*                                                                         *)
(* Time is an integer number of ticks of 0.1 ms, so that round(x, 3) (to   *)
(* the millisecond) and the "%05.2f" of a timestamp (to the hundredth) are *)
(* real conversions.  A timestamp string "MM:SS.ss" is the sequence of its *)
(* colon-separated fields, each field a number of hundredths ("02" is 200, *)
(* "03.31" is 331).                                                        *)
(***************************************************************************)
EXTENDS Integers, Sequences, FiniteSets, TLC

VARIABLES
    pc,           \* position of the narration pipeline front end
    audio_files,  \* list returned by generate_voiceover: timestamp + file
    script,       \* the script segments, mutated in place
    script0,      \* the script as handed to the first resolve_timeline
    prev,         \* script and audio_files just before the latest resolve_timeline
    steps,        \* the loop locals of the latest resolve_timeline, per segment
    collisions,   \* the collision counter of the latest resolve_timeline
    runs,         \* how many times resolve_timeline has run
    validation,   \* what validate_narration_timeline printed
    repo,         \* the stored video record (VideoRepository)
    request,      \* the arguments of execute_batch: user_id and the edited ids
    rb_pc,        \* position of execute_batch
    rb_script,    \* video.video_data["script"], mutated in place by the rebuild
    master,       \* local_old_master (is there one) and master_duration
    processed,    \* processed_audio_list
    concat_list,  \* the files handed to concat_audio_files
    synthesized,  \* the ids generate_voiceover was called for, in order
    uploaded,     \* the blobs upload_file has stored, in order
    rb_result,    \* final_url and total_duration of _rebuild_and_export_timeline
    rb_error,     \* the exception execute_batch raised, or "none"
    workspace,    \* the LocalWorkspace directory: "none", "open" or "removed"
    fetch_failed, \* ids of the segments whose stored artifact could not be fetched
    as_pc,        \* position of assemble_steps
    as_in,        \* its arguments: script timestamps, file lengths, cleanup segments
    garbage_ranges, \* the cleanup ranges in seconds, sorted
    step_clips,   \* one entry per final clip appended so far
    as_calls,     \* the external tool invocations so far, in order
    as_error,     \* the exception assemble_steps raised, or "none"
    tmp_dirs,     \* the temporary directories of assemble_steps that exist
    as_output,    \* the clips concatenated into output_path, or "none"
    iv_pc,        \* position of the interval calculation
    iv_in,        \* the ranges and the total duration handed to it
    iv_out,       \* the ranges it returned
    ts_pc,        \* position of the timestamp calculation
    ts_in,        \* the timestamp string handed to _timestamp_to_seconds
    ts_out,       \* what the pipeline's and the video service's function returned
    bg_pc,        \* position of run_pipeline_background
    bg_env,       \* what the task finds: ENV, the analysis result, the file lengths
    bg_script,    \* the script of NarrationPipeline.run
    bg_saved,     \* the script save_script wrote, if it wrote one
    bg_record,    \* the video record: its status and the script it carries
    bg_failure,   \* the steps of the task that failed
    cc_repo,      \* the stored video two concurrent execute_batch calls work on
    cc_calls      \* per call: its position, its edits and its copy of the script

resolverVars == <<pc, audio_files, script, script0, prev, steps, collisions, runs, validation>>

rebuildVars == <<repo, request, rb_pc, rb_script, master, processed, concat_list,
                 synthesized, uploaded, rb_result, rb_error, workspace, fetch_failed>>

videoVars == <<as_pc, as_in, garbage_ranges, step_clips, as_calls, as_error, tmp_dirs,
               as_output, iv_pc, iv_in, iv_out>>

timestampVars == <<ts_pc, ts_in, ts_out>>

backgroundVars == <<bg_pc, bg_env, bg_script, bg_saved, bg_record, bg_failure>>

concurrentVars == <<cc_repo, cc_calls>>

taskVars == <<timestampVars, backgroundVars, concurrentVars>>

vars == <<resolverVars, rebuildVars, videoVars, taskVars>>

----------------------------------------------------------------------------
(* Units *)

TicksPerMs == 5 + 5
TicksPerCs == 10 * TicksPerMs
TicksPerSecond == 1000 * TicksPerMs

\* An absent dictionary key or None.
NoVal == 0 - 1

Max(a, b) == IF a >= b THEN a ELSE b
Min(a, b) == IF a <= b THEN a ELSE b
Abs(a) == IF a >= 0 THEN a ELSE 0 - a

\* Rounding to the nearest multiple of q, ties to the even multiple.
RoundTo(x, q) ==
    LET lo == (x \div q) * q
        r  == x - lo
    IN  IF 2 * r < q THEN lo
        ELSE IF 2 * r > q THEN lo + q
        ELSE IF (lo \div q) % 2 = 0 THEN lo ELSE lo + q

\* round(x, 3)
Round3(x) == RoundTo(x, TicksPerMs)

----------------------------------------------------------------------------
(* Bounds of the model *)

MaxSegs == 3

\* Segments of a stored script handed to a surgical rebuild.
MaxRebuildSegs == 2

\* Lengths ffprobe can report for a synthesized file (ticks): 1.0 s, 3.0 s, 1.0062 s.
ProbeDurations == {1 * TicksPerSecond, 3 * TicksPerSecond, TicksPerSecond + 62}

\* Nominal timestamps the script generator writes: "00:00", "00:02", "00:05".
NominalTimestamps == {<<0, 0>>, <<0, 200>>, <<0, 500>>}

\* pause_duration values of a generated script (ticks): absent, 0, 0.5 s.
PauseDurations == {NoVal, 5 * 1000}

----------------------------------------------------------------------------
(* VideoService: interval arithmetic *)

\* Ranges handed to one interval calculation.
MaxRanges == 2

\* Script steps handed to one assembly.
MaxSteps == 2

\* (s, e) tuples compare by s, then by e.
LeqRange(a, b) == a[1] < b[1] \/ (a[1] = b[1] /\ a[2] <= b[2])

\* sorted(intervals)
RECURSIVE SortedRanges(_)
SortedRanges(intervals) ==
    IF Len(intervals) <= 1 THEN intervals
    ELSE LET k == CHOOSE i \in 1..Len(intervals) :
                    \A j \in 1..Len(intervals) :
                        /\ LeqRange(intervals[i], intervals[j])
                        /\ (intervals[j] = intervals[i] => i <= j)
             rest == [j \in 1..(Len(intervals) - 1) |->
                         IF j < k THEN intervals[j] ELSE intervals[j + 1]]
         IN  <<intervals[k]>> \o SortedRanges(rest)

\* gap=0.05
MergeGap == 500

\* A merge that joins two ranges only when they overlap or touch.
MergeTouching(last, s, gap) == s <= last[2]

\* if s <= merged[-1][1] + gap
MergeTest(last, s, gap) == s <= last[2] + gap

RECURSIVE MergeLoop(_, _, _, _)
MergeLoop(sorted, k, merged, gap) ==
    IF k > Len(sorted) THEN merged
    ELSE LET last == merged[Len(merged)]
             s    == sorted[k][1]
             e    == sorted[k][2]
         IN  IF MergeTest(last, s, gap)
             THEN MergeLoop(sorted, k + 1,
                            [merged EXCEPT ![Len(merged)] = <<last[1], Max(last[2], e)>>], gap)
             ELSE MergeLoop(sorted, k + 1, Append(merged, <<s, e>>), gap)

\* merge_intervals(intervals, gap)
MergeIntervals(intervals, gap) ==
    IF Len(intervals) = 0 THEN <<>>
    ELSE LET sorted == SortedRanges(intervals)
         IN  MergeLoop(sorted, 2, <<sorted[1]>>, gap)

\* (max(0.0, s), min(duration, e))
ClampRange(r, duration) == <<Max(0, r[1]), Min(duration, r[2])>>

RECURSIVE KeepLoop(_, _, _, _)
KeepLoop(cuts, k, keep, cur) ==
    IF k > Len(cuts) THEN [keep |-> keep, cur |-> cur]
    ELSE LET s == cuts[k][1]
             e == cuts[k][2]
         IN  KeepLoop(cuts, k + 1,
                      IF s > cur THEN Append(keep, <<cur, s>>) ELSE keep,
                      Max(cur, e))

\* An inversion that forgets the stretch after the last cut.
InvertToKeepNoTail(cuts, duration) ==
    KeepLoop(MergeIntervals([k \in 1..Len(cuts) |-> ClampRange(cuts[k], duration)],
                            MergeGap), 1, <<>>, 0).keep

\* invert_to_keep(cuts, duration)
InvertToKeep(cuts, duration) ==
    LET clamped == [k \in 1..Len(cuts) |-> ClampRange(cuts[k], duration)]
        merged  == MergeIntervals(clamped, MergeGap)
        r       == KeepLoop(merged, 1, <<>>, 0)
    IN  IF r.cur < duration THEN Append(r.keep, <<r.cur, duration>>) ELSE r.keep

----------------------------------------------------------------------------
(* VideoService.assemble_steps: the calculation of one step *)

\* VideoService._timestamp_to_seconds
VideoTimestampToSeconds(ts) ==
    IF Len(ts) = 0 THEN 0
    ELSE IF Len(ts) = 1 THEN ts[1] * TicksPerCs
    ELSE (ts[1] \div 100) * 60 * TicksPerSecond + ts[2] * TicksPerCs

\* Script timestamps: "00:08", "00:11", "00:20".
StepTimestamps == {<<0, 800>>, <<0, 1100>>, <<0, 2000>>}

\* Lengths ffprobe reports for a step's audio file (ticks): 0.03 s, 2.03 s, 5.0 s.
AudioLengths == {300, 20300, 50000}

\* The raw video is 25 s long.
RawVideoDurations == {25 * TicksPerSecond}

\* Cleanup segments: "00:10"-"00:15", "00:12"-"00:13" nested in it,
\* "00:14"-"00:22" overlapping it, "00:08.03"-"00:09".
CleanupPool ==
    { [start_time |-> <<0, 1000>>, end_time |-> <<0, 1500>>],
      [start_time |-> <<0, 1200>>, end_time |-> <<0, 1300>>],
      [start_time |-> <<0, 1400>>, end_time |-> <<0, 2200>>],
      [start_time |-> <<0, 803>>,  end_time |-> <<0, 900>>] }

\* The cleanup_segments list holding the elements of a set.
RECURSIVE ListOf(_)
ListOf(S) ==
    IF S = {} THEN <<>>
    ELSE LET x == CHOOSE y \in S : TRUE IN <<x>> \o ListOf(S \ {x})

\* garbage_ranges: the cleanup segments in seconds, then .sort()
GarbageRanges(cleanup_segments) ==
    SortedRanges([k \in 1..Len(cleanup_segments) |->
                    <<VideoTimestampToSeconds(cleanup_segments[k].start_time),
                      VideoTimestampToSeconds(cleanup_segments[k].end_time)>>])

\* A scan that forgets how far earlier cleanup ranges reached.
NextLastPosOfRange(last_pos, g_end) == g_end

\* last_pos = max(last_pos, g_end)
NextLastPos(last_pos, g_end) == Max(last_pos, g_end)

RECURSIVE ValidLoop(_, _, _, _, _, _)
ValidLoop(g, k, valid, last_pos, start_time, end_window) ==
    IF k > Len(g) THEN [valid |-> valid, last_pos |-> last_pos]
    ELSE IF g[k][2] <= start_time
    THEN ValidLoop(g, k + 1, valid, last_pos, start_time, end_window)
    ELSE IF g[k][1] >= end_window THEN [valid |-> valid, last_pos |-> last_pos]
    ELSE ValidLoop(g, k + 1,
                   IF g[k][1] > last_pos THEN Append(valid, <<last_pos, g[k][1]>>)
                   ELSE valid,
                   NextLastPos(last_pos, g[k][2]), start_time, end_window)

\* valid_ranges of a step whose window is [start_time, end_window)
ValidRanges(g, start_time, end_window) ==
    LET r == ValidLoop(g, 1, <<>>, start_time, start_time, end_window)
    IN  IF r.last_pos < end_window THEN Append(r.valid, <<r.last_pos, end_window>>)
        ELSE r.valid

\* if actual_cut < 0.05: continue
MinCut == 500

\* The fallback clip is 0.1 s long.
FallbackCut == 1000

\* cut_segment: -ss and -to are written with three decimals.
CutSegment(start, duration) ==
    [start |-> Round3(start), end |-> Round3(start + duration)]

\* A cut that takes the whole sub-window.
ActualCutAvailable(available, needed) == available

\* actual_cut = min(available, needed)
ActualCut(available, needed) == Min(available, needed)

RECURSIVE CutLoop(_, _, _, _, _)
CutLoop(valid, i, sub_clips, current_v_dur, a_dur) ==
    IF i > Len(valid) \/ current_v_dur >= a_dur
    THEN [sub_clips |-> sub_clips, current_v_dur |-> current_v_dur]
    ELSE LET needed     == a_dur - current_v_dur
             available  == valid[i][2] - valid[i][1]
             actual_cut == ActualCut(available, needed)
         IN  IF actual_cut < MinCut
             THEN CutLoop(valid, i + 1, sub_clips, current_v_dur, a_dur)
             ELSE CutLoop(valid, i + 1,
                          Append(sub_clips, CutSegment(valid[i][1], actual_cut)),
                          current_v_dur + actual_cut, a_dur)

\* The length ffprobe reports for a clip cut or concatenated from cuts.
RECURSIVE ClipLength(_)
ClipLength(clips) ==
    IF Len(clips) = 0 THEN 0
    ELSE (clips[1].end - clips[1].start) + ClipLength(Tail(clips))

\* A hold as long as the whole target.
FreezePadTarget(current, target_duration) == target_duration

\* pad = target_duration - current
FreezePad(current, target_duration) == target_duration - current

\* freeze_to_duration: the length of the output clip and of the held frame.
FreezeToDuration(current, target_duration) ==
    IF current >= target_duration THEN [length |-> current, hold |-> 0]
    ELSE LET pad == FreezePad(current, target_duration)
         IN  [length |-> current + pad, hold |-> pad]

\* Whole stderr kept in the message.
StderrWhole(stderr) == stderr

\* p.stderr[:4000], as a number of characters
StderrCarried(stderr) == Min(stderr, 4000)

\* The body of the loop of assemble_steps for step idx when no tool fails:
\* the locals it computes and the tools it invokes, in order.
AssembleStep(timestamps, a_durs, g, total_v_dur, idx) ==
    LET a_dur      == a_durs[idx]
        start_time == VideoTimestampToSeconds(timestamps[idx])
        end_window == IF idx < Len(timestamps)
                      THEN VideoTimestampToSeconds(timestamps[idx + 1])
                      ELSE total_v_dur
        valid      == ValidRanges(g, start_time, end_window)
        cut        == CutLoop(valid, 1, <<>>, 0, a_dur)
        fallback   == Len(cut.sub_clips) = 0
        cuts       == IF fallback THEN <<CutSegment(start_time, FallbackCut)>>
                      ELSE cut.sub_clips
        base       == ClipLength(cuts)
        frozen     == FreezeToDuration(base, a_dur)
    IN  [idx |-> idx, a_dur |-> a_dur, window |-> <<start_time, end_window>>,
         valid_ranges |-> valid, current_v_dur |-> cut.current_v_dur,
         fallback |-> fallback, cuts |-> cuts, base |-> base,
         length |-> frozen.length, hold |-> frozen.hold,
         calls |-> <<"ffprobe_audio">>
                     \o [k \in 1..Len(cuts) |-> "cut_segment"]
                     \o (IF Len(cuts) > 1 THEN <<"concat_clips">> ELSE <<>>)
                     \o <<"ffprobe_base">>
                     \o (IF base < a_dur THEN <<"tpad">> ELSE <<>>)]

\* No assembly is in progress.
AssembleIdle ==
    /\ as_pc = "idle"
    /\ as_in = [timestamps |-> <<>>, a_durs |-> <<>>, cleanup_segments |-> <<>>,
                total_v_dur |-> 0]
    /\ garbage_ranges = <<>>
    /\ step_clips = <<>>
    /\ as_calls = <<>>
    /\ as_error = [type |-> "none"]
    /\ tmp_dirs = [steps |-> "none", final_concat |-> 0]
    /\ as_output = "none"

\* No interval calculation is in progress.
IntervalIdle ==
    /\ iv_pc = "idle"
    /\ iv_in = [ranges |-> <<>>, duration |-> 0]
    /\ iv_out = [op |-> "none", gap |-> 0, ranges |-> <<>>]

VideoIdle == AssembleIdle /\ IntervalIdle

\* No timestamp is being parsed.
TimestampIdle ==
    /\ ts_pc = "idle"
    /\ ts_in = <<>>
    /\ ts_out = [pipeline |-> NoVal, video |-> NoVal]

\* No background task is running.
BackgroundIdle ==
    /\ bg_pc = "idle"
    /\ bg_env = [use_local |-> TRUE, has_script |-> FALSE, analysis |-> <<>>,
                 probes |-> <<>>]
    /\ bg_script = <<>>
    /\ bg_saved = [written |-> FALSE, script |-> <<>>]
    /\ bg_record = [status |-> "none", has_script |-> FALSE, script |-> <<>>]
    /\ bg_failure = {}

\* No concurrent rebuilds are running.
ConcurrentIdle ==
    /\ cc_repo = [exists |-> FALSE]
    /\ cc_calls = <<>>

TaskIdle == TimestampIdle /\ BackgroundIdle /\ ConcurrentIdle

----------------------------------------------------------------------------
(* NarrationPipeline: timestamps *)

TimestampToSeconds(ts) ==
    IF Len(ts) = 1 THEN ts[1] * TicksPerCs
    ELSE (ts[1] \div 100) * 60 * TicksPerSecond + ts[2] * TicksPerCs

SecondsToTimestamp(seconds) ==
    LET m == seconds \div (60 * TicksPerSecond)
        s == seconds % (60 * TicksPerSecond)
    IN  <<m * 100, RoundTo(s, TicksPerCs) \div TicksPerCs>>

----------------------------------------------------------------------------
(* NarrationPipeline.resolve_timeline *)

\* gap = 0.3
ResolveGap == 3000

\* seg.get(key, 0) or 0
GetOr0(v) == IF v = NoVal THEN 0 ELSE v

\* A resolver that keeps the nominal start, whatever is already placed.
ResolveStartNominal(original_start, next_available) == original_start

\* start_time = max(original_start, next_available)
ResolveStart(original_start, next_available) == Max(original_start, next_available)

\* A collision test that also fires when the segment already sits at its start.
CollidedOrEqual(start_time, original_start) == start_time >= original_start

\* if start_time > original_start
Collided(start_time, original_start) == start_time > original_start

\* One iteration of the loop over audio_files; st holds the loop's state.
ResolveSegment(i, st) ==
    LET seg            == st.af[i]
        audio_duration == seg.probe
        original_start == TimestampToSeconds(seg.timestamp)
        start_time     == ResolveStart(original_start, st.next_available)
        collided       == Collided(start_time, original_start)
        new_ts         == SecondsToTimestamp(start_time)
        af1            == IF collided
                          THEN [st.af EXCEPT ![i].timestamp = new_ts]
                          ELSE st.af
        sc1            == IF collided /\ i <= Len(st.sc)
                          THEN [st.sc EXCEPT ![i].timestamp = new_ts]
                          ELSE st.sc
        end_time       == start_time + audio_duration
        sc2            == IF i <= Len(sc1)
                          THEN [sc1 EXCEPT ![i].start_time = Round3(start_time),
                                           ![i].duration = Round3(audio_duration),
                                           ![i].end_time = Round3(end_time),
                                           ![i].audio_duration = Round3(audio_duration)]
                          ELSE sc1
    IN  [af             |-> af1,
         sc             |-> sc2,
         next_available |-> end_time + ResolveGap,
         collisions     |-> IF collided THEN st.collisions + 1 ELSE st.collisions,
         steps          |-> Append(st.steps,
                                   [original_start |-> original_start,
                                    next_available |-> st.next_available,
                                    start_time     |-> start_time,
                                    end_time       |-> end_time,
                                    collided       |-> collided])]

RECURSIVE ResolveLoop(_, _)
ResolveLoop(i, st) ==
    IF i > Len(st.af) THEN st ELSE ResolveLoop(i + 1, ResolveSegment(i, st))

ResolveTimeline(af, sc) ==
    ResolveLoop(1, [af |-> af, sc |-> sc, next_available |-> 0,
                    collisions |-> 0, steps |-> <<>>])

----------------------------------------------------------------------------
(* NarrationPipeline.compute_narration_timeline, get_narration_duration,
   validate_narration_timeline *)

\* A narration end that forgets the pause.
NarrationEndNoPause(narration_cursor, audio_dur, pause_dur) ==
    Round3(narration_cursor + audio_dur)

\* round(narration_cursor + audio_dur + pause_dur, 3)
NarrationEnd(narration_cursor, audio_dur, pause_dur) ==
    Round3(narration_cursor + audio_dur + pause_dur)

RECURSIVE NarrationLoop(_, _, _)
NarrationLoop(i, sc, narration_cursor) ==
    IF i > Len(sc) THEN sc
    ELSE LET audio_dur == GetOr0(sc[i].audio_duration)
             pause_dur == GetOr0(sc[i].pause_duration)
             nend      == NarrationEnd(narration_cursor, audio_dur, pause_dur)
             sc1       == [sc EXCEPT ![i].narration_start = Round3(narration_cursor),
                                     ![i].narration_end = nend]
         IN  NarrationLoop(i + 1, sc1, nend)

ComputeNarrationTimeline(sc) == NarrationLoop(1, sc, 0)

\* active = [s for s in script if not s.get("isDeleted", False)]
Active(sc) == {i \in 1..Len(sc) : ~sc[i].isDeleted}

RECURSIVE SumOver(_, _, _)
SumOver(sc, S, i) ==
    IF i > Len(sc) THEN 0
    ELSE (IF i \in S
          THEN GetOr0(sc[i].audio_duration) + GetOr0(sc[i].pause_duration)
          ELSE 0) + SumOver(sc, S, i + 1)

\* sum(audio_duration + pause_duration for s in active)
SumActive(sc) == SumOver(sc, Active(sc), 1)

MaxOf(S) == CHOOSE x \in S : \A y \in S : y <= x

GetNarrationDuration(sc) ==
    LET active == Active(sc)
    IN  IF active = {} THEN 0
        ELSE IF \A i \in active : sc[i].narration_end # NoVal
             THEN MaxOf({sc[i].narration_end : i \in active})
             ELSE SumActive(sc)

\* abs(expected - computed) > 0.05
ValidateTolerance == 500

ValidateNarrationTimeline(sc) ==
    IF Active(sc) = {} THEN "skipped"
    ELSE IF Abs(SumActive(sc) - GetNarrationDuration(sc)) > ValidateTolerance
         THEN "mismatch"
         ELSE "validated"

----------------------------------------------------------------------------
(* The front end of NarrationPipeline.run: generate_voiceover has produced
   audio_files for the generated script; then resolve_timeline,
   compute_narration_timeline, validate_narration_timeline. *)

----------------------------------------------------------------------------
(* SyncTimelineUseCase (use_cases/sync_timeline.py): the surgical rebuild *)

\* segment.get("audio_duration", 1.0)
DefaultAudioDuration == 10000
\* if dur <= 0: dur = 0.5
MinSliceDuration == 5000
\* end <= (master_duration + 0.1)
MasterTolerance == 1000
\* gap = 0.5
RebuildGap == 5000
\* abs(total_duration - script[-1]["end_time"]) > 0.01
InvariantTolerance == 100

\* Lengths ffprobe can report for a newly synthesized line: 1.2 s, 2.0004 s.
SynthDurations == {12000, 20004}
\* Length of the stored master audio: 2.45 s.
MasterDurations == {24500}

NoError == [type |-> "none", at |-> "none"]

\* URLs by scheme; "none" is None (or an absent key).
GsUrls == {"gs:old_segment", "gs:old_master", "gs:new_segment", "gs:new_master"}
HttpUrls == {"http:old_segment"}
IsUrl(u) == u # "none"

\* seg.get(key, default)
GetDefault(v, d) == IF v = NoVal THEN d ELSE v

\* A stored script segment.
StoredSegment(i, profile) ==
    [id |-> i, voiceover_text |-> "old",
     start_time |-> profile.start_time,
     audio_duration |-> profile.audio_duration,
     duration |-> profile.audio_duration,
     end_time |-> IF profile.audio_duration = NoVal THEN NoVal
                  ELSE profile.start_time + profile.audio_duration,
     pause_duration |-> profile.pause_duration,
     audio_url |-> profile.audio_url, url |-> profile.url,
     audio_delta |-> NoVal, timeline_shift |-> NoVal,
     narration_start |-> NoVal, narration_end |-> NoVal]

Profile(start, dur, pause, audio_url, url) ==
    [start_time |-> start, audio_duration |-> dur, pause_duration |-> pause,
     audio_url |-> audio_url, url |-> url]

\* What a stored segment can look like: its recorded range lies inside the
\* master (0 .. 2.45 s), ends within 0.1 s after it, or lies beyond it; its
\* artifact is stored under gs://, http, a local path, or nowhere.
SegmentProfiles ==
    { Profile(0, 10000, 5000, "gs:old_segment", "none"),
      Profile(0, 20000, NoVal, "none", "none"),
      Profile(15000, 10000, NoVal, "http:old_segment", "none"),
      Profile(15000, 10000, 5000, "file:old_segment", "none"),
      Profile(30000, 10000, 5000, "gs:old_segment", "none"),
      Profile(30000, 10000, NoVal, "http:old_segment", "none"),
      Profile(30000, 10000, 10000, "file:old_segment", "none"),
      Profile(30000, 10000, NoVal, "none", "none"),
      Profile(30000, 10000, 5000, "none", "gs:old_segment"),
      Profile(5000, NoVal, NoVal, "gs:old_segment", "none"),
      Profile(20000, 0, 5000, "file:old_segment", "none") }

\* dur = segment.get("audio_duration", 1.0); if dur <= 0: dur = 0.5
EffectiveDuration(seg) ==
    LET dur == GetDefault(seg.audio_duration, DefaultAudioDuration)
    IN  IF dur <= 0 THEN MinSliceDuration ELSE dur

\* A slice that always takes the default length.
SliceEndDefaultLength(seg) == GetDefault(seg.start_time, 0) + DefaultAudioDuration

\* end = start + dur
SliceEnd(seg) == GetDefault(seg.start_time, 0) + EffectiveDuration(seg)

\* A rule that only regenerates what has no source, edited or not.
ShouldRegenerateOnlyMissing(seg, edited, local_old_master) ==
    ~(IsUrl(seg.audio_url) \/ IsUrl(seg.url) \/ local_old_master)

ShouldRegenerateSegment(seg, edited, local_old_master) ==
    \/ edited
    \/ ~(IsUrl(seg.audio_url) \/ IsUrl(seg.url) \/ local_old_master)

\* if local_old_master and end <= (master_duration + 0.1)
CanSlice(seg, m) == m.local /\ SliceEnd(seg) <= m.duration + MasterTolerance

\* segment.get("audio_url") or segment.get("url")
StoredUrl(seg) == IF IsUrl(seg.audio_url) THEN seg.audio_url ELSE seg.url

\* Which of the resolution strategies _process_segments takes for a segment.
Strategy(seg, edited, m) ==
    IF ShouldRegenerateSegment(seg, edited, m.local) THEN "regenerate"
    ELSE IF CanSlice(seg, m) THEN "slice"
    ELSE IF StoredUrl(seg) \in GsUrls THEN "fetch_gs"
    ELSE IF StoredUrl(seg) \in HttpUrls THEN "fetch_http"
    ELSE "fallback"

\* The length of the clip atrim=start:end cuts out of the master.
SliceLength(seg, m) == Min(SliceEnd(seg), m.duration) - GetDefault(seg.start_time, 0)

\* processed_audio_list.append({...})
ProcessedItem(seg, strategy, duration, slice) ==
    [id |-> seg.id, strategy |-> strategy, duration |-> duration, slice |-> slice]

\* The exception leaves the with-block: LocalWorkspace.__exit__ removes the directory.
Fail(type, at) ==
    /\ rb_pc' = "failed"
    /\ rb_error' = [type |-> type, at |-> at]
    /\ workspace' = "removed"

\* No surgical rebuild is in progress.
RebuildIdle ==
    /\ repo = [exists |-> FALSE]
    /\ request = [user_id |-> "none", updates |-> {}]
    /\ rb_pc = "idle"
    /\ rb_script = <<>>
    /\ master = [local |-> FALSE, duration |-> 0]
    /\ processed = <<>>
    /\ concat_list = <<>>
    /\ synthesized = <<>>
    /\ uploaded = <<>>
    /\ rb_result = [final_url |-> "none", total_duration |-> 0]
    /\ rb_error = NoError
    /\ workspace = "none"
    /\ fetch_failed = {}

\* A script segment as the generator returns it, before any timing field.
NewSegment(i, ts, pause, deleted) ==
    [id |-> i, timestamp |-> ts, pause_duration |-> pause, isDeleted |-> deleted,
     start_time |-> NoVal, duration |-> NoVal, end_time |-> NoVal,
     audio_duration |-> NoVal, narration_start |-> NoVal, narration_end |-> NoVal]

\* generate_voiceover: one file per script entry, carrying the entry's timestamp.
AudioFile(seg, probe) == [id |-> seg.id, timestamp |-> seg.timestamp, probe |-> probe]

PipelineStart(sc, probes) ==
    /\ pc = "generated"
    /\ script = sc
    /\ script0 = sc
    /\ audio_files = [i \in 1..Len(sc) |-> AudioFile(sc[i], probes[i])]
    /\ prev = [script |-> sc, audio_files |-> <<>>]
    /\ steps = <<>>
    /\ collisions = 0
    /\ runs = 0
    /\ validation = "none"
    /\ RebuildIdle
    /\ VideoIdle
    /\ TaskIdle

\* Scripts with any nominal timestamps and any file lengths.
InitResolver ==
    \E n \in 0..MaxSegs :
      \E ts \in [1..n -> NominalTimestamps], probes \in [1..n -> ProbeDurations] :
        PipelineStart([i \in 1..n |-> NewSegment(i, ts[i], 5000, FALSE)], probes)

\* Scripts with any file lengths, pauses and deletion flags.
InitNarration ==
    \E n \in 0..MaxSegs :
      \E probes \in [1..n -> ProbeDurations], pauses \in [1..n -> PauseDurations],
         deleted \in [1..n -> BOOLEAN] :
        PipelineStart([i \in 1..n |-> NewSegment(i, <<0, 200 * (i - 1)>>, pauses[i], deleted[i])],
                      probes)

\* resolve_timeline(audio_files, script); it may be run again on its own output.
Resolve ==
    /\ pc \in {"generated", "resolved"}
    /\ runs < 2
    /\ LET r == ResolveTimeline(audio_files, script)
       IN  /\ audio_files' = r.af
           /\ script' = r.sc
           /\ steps' = r.steps
           /\ collisions' = r.collisions
    /\ prev' = [script |-> script, audio_files |-> audio_files]
    /\ runs' = runs + 1
    /\ pc' = "resolved"
    /\ UNCHANGED <<script0, validation>>
    /\ UNCHANGED rebuildVars
    /\ UNCHANGED <<videoVars, taskVars>>

ComputeNarration ==
    /\ pc = "resolved"
    /\ script' = ComputeNarrationTimeline(script)
    /\ pc' = "narrated"
    /\ UNCHANGED <<audio_files, script0, prev, steps, collisions, runs, validation>>
    /\ UNCHANGED rebuildVars
    /\ UNCHANGED <<videoVars, taskVars>>

Validate ==
    /\ pc = "narrated"
    /\ validation' = ValidateNarrationTimeline(script)
    /\ pc' = "validated"
    /\ UNCHANGED <<audio_files, script, script0, prev, steps, collisions, runs>>
    /\ UNCHANGED rebuildVars
    /\ UNCHANGED <<videoVars, taskVars>>

NextResolver == Resolve \/ ComputeNarration \/ Validate

----------------------------------------------------------------------------
(* SyncTimelineUseCase.execute_batch *)

\* The narration pipeline is not running.
ResolverIdle ==
    /\ pc = "idle"
    /\ audio_files = <<>>
    /\ script = <<>>
    /\ script0 = <<>>
    /\ prev = [script |-> <<>>, audio_files |-> <<>>]
    /\ steps = <<>>
    /\ collisions = 0
    /\ runs = 0
    /\ validation = "none"

RebuildStart(record, user_id, updates) ==
    /\ repo = record
    /\ request = [user_id |-> user_id, updates |-> updates]
    /\ rb_pc = "start"
    /\ rb_script = <<>>
    /\ master = [local |-> FALSE, duration |-> 0]
    /\ processed = <<>>
    /\ concat_list = <<>>
    /\ synthesized = <<>>
    /\ uploaded = <<>>
    /\ rb_result = [final_url |-> "none", total_duration |-> 0]
    /\ rb_error = NoError
    /\ workspace = "none"
    /\ fetch_failed = {}
    /\ ResolverIdle
    /\ VideoIdle
    /\ TaskIdle

VideoData(sc, processed_audio_url, duration) ==
    [script |-> sc, processed_audio_url |-> processed_audio_url, duration |-> duration]

\* The repository the use case is constructed with: any implementation of
\* the VideoRepository interface, or the SupabaseVideoRepository that the
\* endpoint wires in (sync_timeline_use_case).
RepositoryImpls == {"VideoRepository", "SupabaseVideoRepository"}

\* video_repo.get_by_id(video_id).  SupabaseVideoRepository builds the entity
\* with Video(..., documentation=..., download_ready=...); the dataclass has
\* neither field, the TypeError is caught by its own except and None is
\* returned for every row.
GetById(record) ==
    IF record.exists /\ record.impl # "SupabaseVideoRepository" THEN "video" ELSE "none"

\* batch_audio_edit: the status of the response for the exception that
\* left execute_batch, 200 when it returned.
HttpStatus(type) ==
    IF type = "none" THEN 200
    ELSE IF type = "ValueError" THEN 404
    ELSE IF type = "PermissionError" THEN 403
    ELSE 500

\* A stored script: the pipeline wrote its narration timeline
\* (compute_narration_timeline) before the record was saved.
StoredScript(n, profiles) ==
    ComputeNarrationTimeline([i \in 1..n |-> StoredSegment(i, profiles[i])])

\* execute_batch is called on a video id that is unknown, or on a stored video
\* by its owner or by another user, with edits for some of its segments.
InitRebuild ==
    \/ \E impl \in RepositoryImpls :
         RebuildStart([impl |-> impl, exists |-> FALSE, created_by |-> "none",
                       video_data |-> VideoData(<<>>, "none", 0)], "owner", {})
    \/ \E n \in 0..MaxRebuildSegs :
         \E profiles \in [1..n -> SegmentProfiles], updates \in SUBSET (1..n),
            master_url \in {"none", "gs:old_master"}, user_id \in {"owner", "other"},
            impl \in RepositoryImpls :
           RebuildStart([impl |-> impl, exists |-> TRUE, created_by |-> "owner",
                         video_data |-> VideoData(StoredScript(n, profiles), master_url, 0)],
                        user_id, updates)

\* _load_and_validate_video, then the LocalWorkspace is entered.
LoadAndValidate ==
    /\ rb_pc = "start"
    /\ IF GetById(repo) = "none"
       THEN /\ rb_pc' = "failed"
            /\ rb_error' = [type |-> "ValueError", at |-> "load"]
            /\ UNCHANGED <<rb_script, workspace>>
       ELSE IF repo.created_by # request.user_id
       THEN /\ rb_pc' = "failed"
            /\ rb_error' = [type |-> "PermissionError", at |-> "load"]
            /\ UNCHANGED <<rb_script, workspace>>
       ELSE /\ rb_pc' = "prepare"
            /\ rb_script' = repo.video_data.script
            /\ workspace' = "open"
            /\ UNCHANGED rb_error
    /\ UNCHANGED <<repo, request, master, processed, concat_list, synthesized,
                   uploaded, rb_result, fetch_failed>>
    /\ UNCHANGED resolverVars
    /\ UNCHANGED <<videoVars, taskVars>>

\* Where execute_batch goes once the master is prepared.
AfterPrepare == IF Len(rb_script) = 0 THEN "rebuild" ELSE "segments"

\* _prepare_master_audio
PrepareMaster ==
    /\ rb_pc = "prepare"
    /\ \/ /\ repo.video_data.processed_audio_url \notin GsUrls
          /\ master' = [local |-> FALSE, duration |-> 0]
          /\ rb_pc' = AfterPrepare
          /\ UNCHANGED <<rb_error, workspace>>
       \/ /\ repo.video_data.processed_audio_url \in GsUrls
          /\ \/ \* download_file returned the path and ffprobe measured the file
                \E d \in MasterDurations :
                  /\ master' = [local |-> TRUE, duration |-> d]
                  /\ rb_pc' = AfterPrepare
                  /\ UNCHANGED <<rb_error, workspace>>
             \/ \* download_file returned None
                /\ master' = [local |-> FALSE, duration |-> 0]
                /\ rb_pc' = AfterPrepare
                /\ UNCHANGED <<rb_error, workspace>>
             \/ \* ffprobe on the downloaded master exited non-zero
                /\ Fail("RuntimeError", "probe_master")
                /\ UNCHANGED master
    /\ UNCHANGED <<repo, request, rb_script, processed, concat_list, synthesized,
                   uploaded, rb_result, fetch_failed>>
    /\ UNCHANGED resolverVars
    /\ UNCHANGED <<videoVars, taskVars>>

\* Where execute_batch goes once segment i is resolved.
AfterSegment(i) == IF i = Len(rb_script) THEN "rebuild" ELSE "segments"

\* if voice_text is not None: segment["voiceover_text"] = voice_text
WithNewText(sc, i, edited) ==
    IF edited THEN [sc EXCEPT ![i].voiceover_text = "new"] ELSE sc

\* One iteration of the loop of _process_segments.
ProcessSegment ==
    /\ rb_pc = "segments"
    /\ LET i        == Len(processed) + 1
           seg      == rb_script[i]
           edited   == seg.id \in request.updates
           strategy == Strategy(seg, edited, master)
       IN  \/ /\ strategy \in {"regenerate", "fallback"}
              /\ rb_script' = WithNewText(rb_script, i, edited)
              /\ synthesized' = Append(synthesized, seg.id)
              /\ \/ \E d \in SynthDurations :
                      /\ processed' = Append(processed, ProcessedItem(seg, strategy, d, <<>>))
                      /\ rb_pc' = AfterSegment(i)
                      /\ UNCHANGED <<rb_error, workspace>>
                 \/ /\ Fail("Exception", "synthesize")
                    /\ UNCHANGED processed
              /\ UNCHANGED fetch_failed
           \/ /\ strategy = "slice"
              /\ \/ /\ processed' = Append(processed,
                                           ProcessedItem(seg, strategy, SliceLength(seg, master),
                                                         <<GetDefault(seg.start_time, 0), SliceEnd(seg)>>))
                    /\ rb_pc' = AfterSegment(i)
                    /\ UNCHANGED <<rb_error, workspace>>
                 \/ /\ Fail("RuntimeError", "slice")
                    /\ UNCHANGED processed
              /\ UNCHANGED <<rb_script, synthesized, fetch_failed>>
           \/ /\ strategy = "fetch_gs"
              /\ \/ \* download_file stored the artifact at local_seg_path
                    /\ processed' = Append(processed,
                                           ProcessedItem(seg, strategy, EffectiveDuration(seg), <<>>))
                    /\ rb_pc' = AfterSegment(i)
                    /\ UNCHANGED <<rb_error, workspace, fetch_failed>>
                 \/ \* download_file returned None, which _download_segment ignores:
                    \* ffprobe on the missing local_seg_path exits non-zero
                    /\ fetch_failed' = fetch_failed \cup {seg.id}
                    /\ Fail("RuntimeError", "probe_segment")
                    /\ UNCHANGED processed
              /\ UNCHANGED <<rb_script, synthesized>>
           \/ /\ strategy = "fetch_http"
              /\ \/ /\ processed' = Append(processed,
                                           ProcessedItem(seg, strategy, EffectiveDuration(seg), <<>>))
                    /\ rb_pc' = AfterSegment(i)
                    /\ UNCHANGED <<rb_error, workspace, fetch_failed>>
                 \/ \* requests.get raised
                    /\ fetch_failed' = fetch_failed \cup {seg.id}
                    /\ Fail("Exception", "http_download")
                    /\ UNCHANGED processed
              /\ UNCHANGED <<rb_script, synthesized>>
    /\ UNCHANGED <<repo, request, master, concat_list, uploaded, rb_result>>
    /\ UNCHANGED resolverVars
    /\ UNCHANGED <<videoVars, taskVars>>


SpecResolver == InitResolver /\ [][NextResolver]_vars
SpecNarration == InitNarration /\ [][NextResolver]_vars

\* self.audio_service.generate_silence(pause, silence_path): AudioService
\* defines __init__, run_cmd and concat_audio_files only, so the attribute
\* lookup raises.
GenerateSilence(pause) == "AttributeError"

\* The body of the loop of _rebuild_and_export_timeline for item i; st holds
\* the script, the concat list, current_time and the exception raised, if any.
RebuildItem(i, st) ==
    LET n          == Len(processed)
        seg        == st.sc[i]
        new_dur    == Round3(processed[i].duration)
        orig_start == GetDefault(seg.start_time, 0)
        orig_dur   == GetDefault(seg.audio_duration, 0)
        start_time == Round3(st.current_time)
        end_time   == Round3(st.current_time + new_dur)
        seg1       == [seg EXCEPT !.start_time = start_time,
                                  !.audio_duration = new_dur,
                                  !.duration = new_dur,
                                  !.end_time = end_time,
                                  !.audio_delta = Round3(new_dur - orig_dur),
                                  !.timeline_shift = Round3(start_time - orig_start)]
        concat1    == Append(st.concat, [kind |-> "clip", of |-> i])
        pause      == GetDefault(seg.pause_duration, RebuildGap)
        seg2       == [seg1 EXCEPT !.pause_duration = pause]
        silence    == GenerateSilence(pause)
    IN  IF i < n
        THEN IF silence = "ok"
             THEN [sc |-> [st.sc EXCEPT ![i] = seg2],
                   concat |-> Append(concat1, [kind |-> "silence", of |-> pause]),
                   current_time |-> end_time + pause,
                   error |-> "none"]
             ELSE [sc |-> [st.sc EXCEPT ![i] = seg2],
                   concat |-> concat1,
                   current_time |-> st.current_time,
                   error |-> silence]
        ELSE [sc |-> [st.sc EXCEPT ![i] = seg1],
              concat |-> concat1,
              current_time |-> end_time,
              error |-> "none"]

RECURSIVE RebuildLoop(_, _)
RebuildLoop(i, st) ==
    IF i > Len(processed) \/ st.error # "none" THEN st
    ELSE RebuildLoop(i + 1, RebuildItem(i, st))

\* _rebuild_and_export_timeline: the loop, the concatenation and the upload of
\* the new master.
RebuildAndExportTimeline ==
    /\ rb_pc = "rebuild"
    /\ LET r == RebuildLoop(1, [sc |-> rb_script, concat |-> <<>>,
                                current_time |-> 0, error |-> "none"])
       IN  /\ rb_script' = r.sc
           /\ concat_list' = r.concat
           /\ IF r.error # "none"
              THEN /\ Fail(r.error, "generate_silence")
                   /\ UNCHANGED <<uploaded, rb_result>>
              ELSE \/ \* ffmpeg concat exited non-zero
                      /\ Fail("RuntimeError", "concat")
                      /\ UNCHANGED <<uploaded, rb_result>>
                   \/ \* upload_file stored the new master
                      /\ uploaded' = Append(uploaded, [kind |-> "master", of |-> 0])
                      /\ rb_result' = [final_url |-> "gs:new_master",
                                        total_duration |-> Round3(r.current_time)]
                      /\ rb_pc' = "persist"
                      /\ UNCHANGED <<rb_error, workspace>>
                   \/ \* upload_file caught the failure and returned None
                      /\ rb_result' = [final_url |-> "none",
                                        total_duration |-> Round3(r.current_time)]
                      /\ rb_pc' = "persist"
                      /\ UNCHANGED <<uploaded, rb_error, workspace>>
    /\ UNCHANGED <<repo, request, master, processed, synthesized, fetch_failed>>
    /\ UNCHANGED resolverVars
    /\ UNCHANGED <<videoVars, taskVars>>

\* The edited items of processed_audio_list, in order.
EditedItems == SelectSeq(processed, LAMBDA item : item.id \in request.updates)

\* for s in script: if s["id"] == item["id"]: s["audio_url"] = seg_url
WithSegmentUrls(sc, failing) ==
    [k \in 1..Len(sc) |->
        IF sc[k].id \in request.updates
        THEN [sc[k] EXCEPT !.audio_url = IF sc[k].id \in failing THEN "none"
                                         ELSE "gs:new_segment"]
        ELSE sc[k]]

\* A record that stores the duration with a trailing pause added.
UpdatedDataTrailingPause(sc, final_url, total_duration) ==
    VideoData(sc, final_url, total_duration + RebuildGap)

\* updated_data = {"script": ..., "processed_audio_url": ..., "duration": ...}
UpdatedData(sc, final_url, total_duration) ==
    VideoData(sc, final_url, total_duration)

\* if script and abs(total_duration - script[-1]["end_time"]) > 0.01
InvariantBroken(sc, total_duration) ==
    /\ Len(sc) > 0
    /\ Abs(total_duration - sc[Len(sc)].end_time) > InvariantTolerance

\* VideoRepository.update(video_id, video_data=...): a top-level merge.
RepoUpdate(record, updated_data) ==
    [record EXCEPT !.video_data.script = updated_data.script,
                   !.video_data.processed_audio_url = updated_data.processed_audio_url,
                   !.video_data.duration = updated_data.duration]

\* _persist_updates, then execute_batch returns; failing holds the edited ids
\* whose upload_file returned None.
PersistUpdates ==
    /\ rb_pc = "persist"
    /\ \E failing \in SUBSET {item.id : item \in {EditedItems[k] : k \in 1..Len(EditedItems)}} :
         LET stored == SelectSeq(EditedItems, LAMBDA item : item.id \notin failing)
             sc     == WithSegmentUrls(rb_script, failing)
         IN  /\ uploaded' = uploaded \o [k \in 1..Len(stored) |->
                                            [kind |-> "segment", of |-> stored[k].id]]
             /\ rb_script' = sc
             /\ IF InvariantBroken(sc, rb_result.total_duration)
                THEN /\ Fail("RuntimeError", "invariant")
                     /\ UNCHANGED repo
                ELSE \/ \* video_repo.update stored the record
                        /\ repo' = RepoUpdate(repo, UpdatedData(sc, rb_result.final_url,
                                                                rb_result.total_duration))
                        /\ rb_pc' = "done"
                        /\ workspace' = "removed"
                        /\ UNCHANGED rb_error
                     \/ \* video_repo.update raised: the write did not happen
                        /\ Fail("Exception", "repo_update")
                        /\ UNCHANGED repo
    /\ UNCHANGED <<request, master, processed, concat_list, synthesized, rb_result,
                   fetch_failed>>
    /\ UNCHANGED resolverVars
    /\ UNCHANGED <<videoVars, taskVars>>

NextRebuild ==
    LoadAndValidate \/ PrepareMaster \/ ProcessSegment \/ RebuildAndExportTimeline
        \/ PersistUpdates

SpecRebuild == InitRebuild /\ [][NextRebuild]_vars

----------------------------------------------------------------------------
(* Timeline Resolver: properties *)

\* The nominal start of segment i as resolve_timeline read it in its latest run.
NominalOf(i) == TimestampToSeconds(prev.audio_files[i].timestamp)

\* C1: after resolve_timeline the written start_time values are non-decreasing
\* in script order, each is at least the segment's nominal timestamp, and no
\* two segments' [start_time, end_time) intervals overlap.
C1_ResolvedPlacement ==
    runs >= 1 =>
        /\ \A i \in 1..Len(script) : script[i].start_time >= NominalOf(i)
        /\ \A i, j \in 1..Len(script) :
              i < j => /\ script[i].start_time <= script[j].start_time
                       /\ script[i].end_time <= script[j].start_time

\* C1 witness: a three-segment run in which one segment was pushed back by a
\* collision and another kept a nominal start beyond the next free time.
C1_Witness ==
    /\ runs = 1
    /\ Len(script) = 3
    /\ \E i \in 1..3 : steps[i].collided
    /\ \E i \in 2..3 : steps[i].original_start > steps[i].next_available

\* C2: walking the segments with nextAvailable starting at 0, start_time is
\* max(nominal, nextAvailable), end_time is start_time + audio duration and
\* nextAvailable becomes end_time + 0.3 s; a collision is counted and the
\* timestamp rewritten exactly when start_time differs from the nominal start,
\* and a segment whose nominal start is not before nextAvailable keeps its
\* timestamp; nominal starts [0, 2, 2] with durations [3.0, 1.0, 1.0] resolve
\* to starts [0.0, 3.3, 4.6] with 2 collisions.
C2_ResolveAlgorithm ==
    runs >= 1 =>
        LET n     == Len(script)
            na(i) == IF i = 1 THEN 0 ELSE steps[i - 1].end_time + 3000
            moved == {i \in 1..n : steps[i].start_time # NominalOf(i)}
        IN  /\ Len(steps) = n
            /\ \A i \in 1..n :
                  /\ steps[i].start_time = Max(NominalOf(i), na(i))
                  /\ steps[i].end_time = steps[i].start_time + audio_files[i].probe
                  /\ script[i].start_time = Round3(steps[i].start_time)
                  /\ script[i].end_time = Round3(steps[i].end_time)
                  /\ i \in moved =>
                        /\ script[i].timestamp = SecondsToTimestamp(steps[i].start_time)
                        /\ audio_files[i].timestamp = script[i].timestamp
                  /\ NominalOf(i) >= na(i) =>
                        /\ i \notin moved
                        /\ script[i].timestamp = prev.script[i].timestamp
                        /\ audio_files[i].timestamp = prev.audio_files[i].timestamp
            /\ collisions = Cardinality(moved)
            /\ ( /\ runs = 1
                 /\ n = 3
                 /\ [i \in 1..3 |-> script0[i].timestamp] = <<(<<0, 0>>), (<<0, 200>>), (<<0, 200>>)>>
                 /\ [i \in 1..3 |-> audio_files[i].probe] = <<30000, 10000, 10000>> )
              => /\ [i \in 1..3 |-> script[i].start_time] = <<0, 33000, 46000>>
                 /\ collisions = 2

\* C2 witness: the scenario [0, 2, 2] / [3.0, 1.0, 1.0] has been resolved.
C2_Witness ==
    /\ runs = 1
    /\ Len(script) = 3
    /\ [i \in 1..3 |-> script0[i].timestamp] = <<(<<0, 0>>), (<<0, 200>>), (<<0, 200>>)>>
    /\ [i \in 1..3 |-> audio_files[i].probe] = <<30000, 10000, 10000>>
    /\ collisions = 2

\* C3: a second resolve_timeline on the output of the first leaves timestamp,
\* start_time and end_time of every segment as the first run wrote them.
C3_Idempotent ==
    runs = 2 =>
        \A i \in 1..Len(script) :
            /\ script[i].timestamp = prev.script[i].timestamp
            /\ script[i].start_time = prev.script[i].start_time
            /\ script[i].end_time = prev.script[i].end_time

----------------------------------------------------------------------------
(* Narration timeline: properties *)

Narrated == pc \in {"narrated", "validated"}

\* C4: after compute_narration_timeline the first narration_start is 0, each
\* narration_end equals the next segment's narration_start, each segment spans
\* audio_duration + pause_duration, and get_narration_duration is the
\* narration_end of the last kept segment.
C4_NarrationContiguous ==
    Narrated =>
        LET n == Len(script)
        IN  /\ n >= 1 => script[1].narration_start = 0
            /\ \A i \in 1..(n - 1) : script[i].narration_end = script[i + 1].narration_start
            /\ \A i \in 1..n :
                  script[i].narration_end - script[i].narration_start
                    = script[i].audio_duration + GetOr0(script[i].pause_duration)
            /\ Active(script) # {} =>
                  GetNarrationDuration(script) = script[MaxOf(Active(script))].narration_end

\* C4 witness: a narrated three-segment script with a pause after its first
\* segment and a kept last segment.
C4_Witness ==
    /\ pc = "narrated"
    /\ Len(script) = 3
    /\ script[1].pause_duration > 0
    /\ ~script[3].isDeleted
    /\ script[2].narration_start > script[1].audio_duration

\* C5: the narration duration reported after compute_narration_timeline is the
\* sum of audio_duration + pause_duration over the non-deleted segments, so
\* validate_narration_timeline reports no mismatch.
C5_NarrationSkipsDeleted ==
    pc = "validated" =>
        /\ GetNarrationDuration(script) = SumActive(script)
        /\ validation # "mismatch"

----------------------------------------------------------------------------
(* VideoService.assemble_steps *)

assembleVars == <<as_pc, as_in, garbage_ranges, step_clips, as_calls, as_error, tmp_dirs,
                  as_output>>

intervalVars == <<iv_pc, iv_in, iv_out>>

\* Lengths of the stderr of a failing tool, in characters.
StderrLengths == {120, 4000 + 1}

\* run_cmd: RuntimeError carrying the command and the truncated stderr.
CommandFailed(step, tool, stderr) ==
    [type |-> "RuntimeError", step |-> step, cmd |-> tool,
     stderr |-> StderrCarried(stderr), stderr_full |-> stderr]

\* The first f of a step's tool invocations; the last one exited non-zero
\* when failed holds.
Invocations(step, calls, f, failed) ==
    [k \in 1..f |-> [step |-> step, tool |-> calls[k], ok |-> ~(failed /\ k = f)]]

\* How many of the first f invocations are concat_clips, each of which makes
\* a final_concat_ directory before it runs ffmpeg.
ConcatDirs(calls, f) == Cardinality({k \in 1..f : calls[k] = "concat_clips"})

InitAssemble ==
    /\ ResolverIdle
    /\ RebuildIdle
    /\ IntervalIdle
    /\ TaskIdle
    /\ \E n \in 1..MaxSteps :
         \E timestamps \in [1..n -> StepTimestamps], a_durs \in [1..n -> AudioLengths],
            cleanup \in SUBSET CleanupPool, total_v_dur \in RawVideoDurations :
           as_in = [timestamps |-> timestamps, a_durs |-> a_durs,
                    cleanup_segments |-> ListOf(cleanup), total_v_dur |-> total_v_dur]
    /\ as_pc = "start"
    /\ garbage_ranges = <<>>
    /\ step_clips = <<>>
    /\ as_calls = <<>>
    /\ as_error = [type |-> "none"]
    /\ tmp_dirs = [steps |-> "none", final_concat |-> 0]
    /\ as_output = "none"

\* mkdtemp, get_duration(raw_video) and the cleanup ranges, before the try.
AssembleStart ==
    /\ as_pc = "start"
    /\ tmp_dirs' = [tmp_dirs EXCEPT !.steps = "exists"]
    /\ \/ /\ as_calls' = Append(as_calls, [step |-> 0, tool |-> "ffprobe_raw", ok |-> TRUE])
          /\ garbage_ranges' = GarbageRanges(as_in.cleanup_segments)
          /\ as_pc' = "steps"
          /\ UNCHANGED as_error
       \/ \E stderr \in StderrLengths :
             /\ as_calls' = Append(as_calls,
                                   [step |-> 0, tool |-> "ffprobe_raw", ok |-> FALSE])
             /\ as_error' = CommandFailed(0, "ffprobe_raw", stderr)
             /\ as_pc' = "failed"
             /\ UNCHANGED garbage_ranges
    /\ UNCHANGED <<as_in, step_clips, as_output>>
    /\ UNCHANGED <<resolverVars, rebuildVars, intervalVars, taskVars>>

\* What step_clips.append(final_clip) stands for.
FinalClip(r) ==
    [idx |-> r.idx, a_dur |-> r.a_dur, window |-> r.window,
     valid_ranges |-> r.valid_ranges, current_v_dur |-> r.current_v_dur,
     fallback |-> r.fallback, cuts |-> r.cuts, base |-> r.base,
     length |-> r.length, hold |-> r.hold]

\* One iteration of the loop over the script; a failing tool leaves through
\* the finally, which removes the steps_ directory.
AssembleSegment ==
    /\ as_pc = "steps"
    /\ Len(step_clips) < Len(as_in.timestamps)
    /\ LET r == AssembleStep(as_in.timestamps, as_in.a_durs, garbage_ranges,
                             as_in.total_v_dur, Len(step_clips) + 1)
       IN  \/ /\ step_clips' = Append(step_clips, FinalClip(r))
              /\ as_calls' = as_calls \o Invocations(r.idx, r.calls, Len(r.calls), FALSE)
              /\ tmp_dirs' = [tmp_dirs EXCEPT
                                !.final_concat = @ + ConcatDirs(r.calls, Len(r.calls))]
              /\ UNCHANGED <<as_pc, as_error>>
           \/ \E f \in 1..Len(r.calls), stderr \in StderrLengths :
                 /\ as_calls' = as_calls \o Invocations(r.idx, r.calls, f, TRUE)
                 /\ as_error' = CommandFailed(r.idx, r.calls[f], stderr)
                 /\ as_pc' = "failed"
                 /\ tmp_dirs' = [steps |-> "removed",
                                 final_concat |-> tmp_dirs.final_concat
                                                   + ConcatDirs(r.calls, f)]
                 /\ UNCHANGED step_clips
    /\ UNCHANGED <<as_in, garbage_ranges, as_output>>
    /\ UNCHANGED <<resolverVars, rebuildVars, intervalVars, taskVars>>

\* A concatenation list written back to front.
ConcatOrderReversed(clips) == [k \in 1..Len(clips) |-> clips[Len(clips) + 1 - k].idx]

\* The list.txt of concat_clips: the clips in list order.
ConcatOrder(clips) == [k \in 1..Len(clips) |-> clips[k].idx]

\* concat_clips(step_clips, output_path), then the finally.
FinalConcat ==
    /\ as_pc = "steps"
    /\ Len(step_clips) = Len(as_in.timestamps)
    /\ tmp_dirs' = [steps |-> "removed", final_concat |-> tmp_dirs.final_concat + 1]
    /\ \/ /\ as_calls' = Append(as_calls, [step |-> Len(step_clips) + 1,
                                            tool |-> "concat_final", ok |-> TRUE])
          /\ as_output' = ConcatOrder(step_clips)
          /\ as_pc' = "done"
          /\ UNCHANGED as_error
       \/ \E stderr \in StderrLengths :
             /\ as_calls' = Append(as_calls, [step |-> Len(step_clips) + 1,
                                               tool |-> "concat_final", ok |-> FALSE])
             /\ as_error' = CommandFailed(Len(step_clips) + 1, "concat_final", stderr)
             /\ as_pc' = "failed"
             /\ UNCHANGED as_output
    /\ UNCHANGED <<as_in, garbage_ranges, step_clips>>
    /\ UNCHANGED <<resolverVars, rebuildVars, intervalVars, taskVars>>

NextAssemble == AssembleStart \/ AssembleSegment \/ FinalConcat

SpecAssemble == InitAssemble /\ [][NextAssemble]_vars


----------------------------------------------------------------------------
(* VideoService.merge_intervals and invert_to_keep *)

\* Ranges in ticks: [5, 10), [10.03, 15), [12, 13), [14, 22), [20, 30),
\* [30, 40) and the short [17, 17.03).
RangePool ==
    { <<50000, 100000>>, <<100300, 150000>>, <<120000, 130000>>, <<140000, 220000>>,
      <<200000, 300000>>, <<300000, 400000>>, <<170000, 170300>> }

\* Sequences over S of length at most n.
SeqsUpTo(S, n) == UNION {[1..k -> S] : k \in 0..n}

\* gap arguments of merge_intervals: 0 and the default.
MergeGaps == {0, MergeGap}

InitIntervals ==
    /\ ResolverIdle
    /\ RebuildIdle
    /\ AssembleIdle
    /\ TaskIdle
    /\ iv_pc = "start"
    /\ \E ranges \in SeqsUpTo(RangePool, MaxRanges), duration \in RawVideoDurations :
         iv_in = [ranges |-> ranges, duration |-> duration]
    /\ iv_out = [op |-> "none", gap |-> 0, ranges |-> <<>>]

\* merge_intervals(ranges, gap)
Merge ==
    /\ iv_pc = "start"
    /\ \E gap \in MergeGaps :
         iv_out' = [op |-> "merge", gap |-> gap, ranges |-> MergeIntervals(iv_in.ranges, gap)]
    /\ iv_pc' = "merged"
    /\ UNCHANGED iv_in
    /\ UNCHANGED <<resolverVars, rebuildVars, assembleVars, taskVars>>

\* invert_to_keep(ranges, duration)
Invert ==
    /\ iv_pc = "start"
    /\ iv_out' = [op |-> "invert", gap |-> MergeGap,
                  ranges |-> InvertToKeep(iv_in.ranges, iv_in.duration)]
    /\ iv_pc' = "inverted"
    /\ UNCHANGED iv_in
    /\ UNCHANGED <<resolverVars, rebuildVars, assembleVars, taskVars>>

\* invert_to_keep applied to the keep ranges it returned
InvertAgain ==
    /\ iv_pc = "inverted"
    /\ iv_out' = [op |-> "invert_twice", gap |-> MergeGap,
                  ranges |-> InvertToKeep(iv_out.ranges, iv_in.duration)]
    /\ iv_pc' = "inverted_twice"
    /\ UNCHANGED iv_in
    /\ UNCHANGED <<resolverVars, rebuildVars, assembleVars, taskVars>>

NextIntervals == Merge \/ Invert \/ InvertAgain

SpecIntervals == InitIntervals /\ [][NextIntervals]_vars


----------------------------------------------------------------------------
(* Surgical Rebuilder: properties *)

\* total_duration and the last segment's end_time agree within 0.01 s.
DurationMatches(sc, total_duration) ==
    Len(sc) = 0 \/ Abs(total_duration - sc[Len(sc)].end_time) <= 100

\* C6: whenever execute_batch updates the repository, the persisted total
\* duration equals the last script segment's end_time within 0.01 s; if the
\* two differ by more, a fatal error is raised and the repository is not updated.
C6_HardInvariant ==
    [][ rb_pc = "persist" =>
          /\ rb_pc' = "done" =>
                DurationMatches(repo'.video_data.script, repo'.video_data.duration)
          /\ repo' # repo => rb_pc' = "done"
          /\ ~DurationMatches(rb_script', rb_result.total_duration) =>
                /\ rb_pc' = "failed"
                /\ rb_error'.type = "RuntimeError"
                /\ repo' = repo ]_vars

\* C6 witness: a one-segment rebuild has updated the record with a positive
\* duration equal to the segment's new end_time.
C6_Witness ==
    /\ rb_pc = "done"
    /\ Len(repo.video_data.script) = 1
    /\ repo.video_data.duration > 0
    /\ repo.video_data.duration = repo.video_data.script[1].end_time

\* The stored segment behind processed item k, while the record is untouched.
Stored(k) == repo.video_data.script[k]

\* The three kinds of resolution the rebuild distinguishes.
StrategyKind(strategy) ==
    IF strategy \in {"regenerate", "fallback"} THEN "regenerate"
    ELSE IF strategy = "slice" THEN "slice"
    ELSE "fetch"

\* The priority rule of the rebuild, with "in_master" deciding whether the
\* segment's recorded range counts as lying within the master.
PriorityRule(seg, edited, in_master) ==
    IF edited \/ (seg.audio_url = "none" /\ seg.url = "none" /\ ~master.local)
    THEN "regenerate"
    ELSE IF master.local /\ in_master THEN "slice"
    ELSE IF (IF seg.audio_url # "none" THEN seg.audio_url ELSE seg.url)
              \in {"gs:old_segment", "http:old_segment"}
    THEN "fetch"
    ELSE "regenerate"

\* The recorded [start_time, end_time) lies within the master's duration.
RecordedRangeInMaster(seg) ==
    seg.end_time # NoVal /\ seg.start_time >= 0 /\ seg.end_time <= master.duration

\* start_time + audio_duration (1.0 s when absent, 0.5 s when not positive)
\* is at most the master's duration plus 0.1 s.
SliceRangeInMaster(seg) ==
    LET dur == IF seg.audio_duration = NoVal THEN 10000
               ELSE IF seg.audio_duration <= 0 THEN 5000
               ELSE seg.audio_duration
    IN  seg.start_time + dur <= master.duration + 1000

\* The segments resolved so far, one processed item each, in script order.
OneItemEach ==
    /\ Len(processed) <= Len(rb_script)
    /\ \A k \in 1..Len(processed) : processed[k].id = rb_script[k].id

\* C7 as stated: each segment is resolved by exactly one strategy, chosen as
\* (1) regenerate if edited or without any audio source, else (2) slice if a
\* master is available and the recorded [start_time, end_time) lies within the
\* master's duration, else (3) fetch by a gs:// or http URL, else
\* (4) regenerate; an edited segment is never sliced or fetched.
C7_StrategyPriority ==
    rb_pc \in {"segments", "rebuild", "persist", "failed"} =>
        /\ OneItemEach
        /\ \A k \in 1..Len(processed) :
              StrategyKind(processed[k].strategy)
                = PriorityRule(Stored(k), Stored(k).id \in request.updates,
                               RecordedRangeInMaster(Stored(k)))

\* C7 amended: as C7, with (2) taken when start_time + audio_duration
\* (audio_duration read as 1.0 s when absent and 0.5 s when not positive) is
\* at most the master's duration plus 0.1 s.
C7_StrategyPriorityTolerant ==
    rb_pc \in {"segments", "rebuild", "persist", "failed"} =>
        /\ OneItemEach
        /\ \A k \in 1..Len(processed) :
              /\ StrategyKind(processed[k].strategy)
                   = PriorityRule(Stored(k), Stored(k).id \in request.updates,
                                  SliceRangeInMaster(Stored(k)))
              /\ Stored(k).id \in request.updates => processed[k].strategy = "regenerate"

\* C7 witness: with a master of 2.45 s, a segment recorded as [1.5, 2.5) was
\* sliced and a segment beyond the master without a fetchable URL was
\* regenerated by the fallback.
C7_Witness ==
    /\ Len(processed) = 2
    /\ master.local
    /\ processed[1].strategy = "slice"
    /\ Stored(1).end_time > master.duration
    /\ processed[2].strategy = "fallback"

\* The ids the synthesizer was called for.
SynthesizedIds == {synthesized[j] : j \in 1..Len(synthesized)}

\* Sliced segments keep their text and are never uploaded.
SlicedUntouched ==
    \A k \in 1..Len(processed) :
        processed[k].strategy = "slice" =>
            /\ rb_script[k].voiceover_text = "old"
            /\ \A u \in 1..Len(uploaded) :
                  uploaded[u] # [kind |-> "segment", of |-> processed[k].id]

\* C8 as stated: with a master available the synthesizer is invoked only for
\* edited segments; every unedited segment whose recorded range lies within
\* the master is cut out of it as exactly [start_time, start_time +
\* audio_duration), keeps its voiceover_text and is not uploaded again.
C8_UneditedReused ==
    master.local =>
        /\ SynthesizedIds \subseteq request.updates
        /\ SlicedUntouched
        /\ rb_pc # "done" =>
              \A k \in 1..Len(processed) :
                  ( /\ Stored(k).id \notin request.updates
                    /\ Stored(k).audio_duration # NoVal
                    /\ Stored(k).start_time + Stored(k).audio_duration <= master.duration )
                  => /\ processed[k].strategy = "slice"
                     /\ processed[k].slice
                          = <<Stored(k).start_time,
                              Stored(k).start_time + Stored(k).audio_duration>>

\* C8 amended: with a master available the synthesizer is invoked only for
\* edited segments and for unedited segments that reach beyond the master and
\* have no gs:// or http URL; every unedited segment whose start_time +
\* audio_duration (1.0 s when absent, 0.5 s when not positive) is within the
\* master's duration plus 0.1 s is cut out of it as exactly that range, keeps
\* its voiceover_text and is not uploaded again.
C8_UneditedReusedOrFallback ==
    master.local =>
        /\ SlicedUntouched
        /\ rb_pc # "done" =>
              /\ \A id \in SynthesizedIds :
                    \/ id \in request.updates
                    \/ /\ ~SliceRangeInMaster(Stored(id))
                       /\ (IF Stored(id).audio_url # "none" THEN Stored(id).audio_url
                            ELSE Stored(id).url)
                            \notin {"gs:old_segment", "http:old_segment"}
              /\ \A k \in 1..Len(processed) :
                    (Stored(k).id \notin request.updates /\ SliceRangeInMaster(Stored(k)))
                    => /\ processed[k].strategy = "slice"
                       /\ processed[k].slice
                            = <<Stored(k).start_time,
                                Stored(k).start_time
                                  + (IF Stored(k).audio_duration = NoVal THEN 10000
                                     ELSE IF Stored(k).audio_duration <= 0 THEN 5000
                                     ELSE Stored(k).audio_duration)>>

\* C8 witness: of two segments the first was edited and synthesized, the
\* second was left alone and cut out of the master.
C8_Witness ==
    /\ master.local
    /\ Len(processed) = 2
    /\ request.updates = {1}
    /\ synthesized = <<1>>
    /\ rb_script[1].voiceover_text = "new"
    /\ processed[2].strategy = "slice"
    /\ processed[2].slice = <<0, 20000>>

\* C9: when the stored artifact of an unedited segment cannot be fetched, the
\* segment is synthesized again and the rebuild goes on instead of aborting.
C9_FetchFailureFallsBack ==
    fetch_failed # {} =>
        /\ rb_pc # "failed"
        /\ fetch_failed \subseteq SynthesizedIds

\* _rebuild_and_export_timeline has run on a fully resolved script and no
\* media tool or upload failed in it.
RebuildRan ==
    \/ rb_pc \in {"persist", "done"}
    \/ rb_pc = "failed" /\ rb_error.at \in {"generate_silence", "invariant"}

\* The concatenation list the claim describes: the clips in script order with
\* one silence of the segment's pause between consecutive clips.
ThreadedConcat(sc) ==
    [j \in 1..(2 * Len(sc) - 1) |->
        IF j % 2 = 1 THEN [kind |-> "clip", of |-> (j + 1) \div 2]
        ELSE [kind |-> "silence", of |-> sc[j \div 2].pause_duration]]

\* C10: after a surgical rebuild the first start_time is 0, end_time is
\* start_time + measured duration, the next start_time is end_time +
\* pause_duration (0.5 s when the segment had none), no pause follows the last
\* segment, audio_delta and timeline_shift are new minus old, and the
\* concatenation list is the clips in script order with exactly one silence
\* clip between each consecutive pair.
C10_Rethreaded ==
    (RebuildRan /\ Len(processed) >= 1) =>
        LET n == Len(processed)
        IN  /\ rb_script[1].start_time = 0
            /\ \A k \in 1..n :
                  /\ rb_script[k].end_time
                       = rb_script[k].start_time + Round3(processed[k].duration)
                  /\ rb_script[k].audio_duration = Round3(processed[k].duration)
            /\ \A k \in 1..(n - 1) :
                  /\ rb_script[k].pause_duration # NoVal
                  /\ rb_script[k + 1].start_time
                       = rb_script[k].end_time + rb_script[k].pause_duration
            /\ rb_pc # "done" =>
                  \A k \in 1..n :
                      /\ rb_script[k].audio_delta
                           = rb_script[k].audio_duration
                               - GetDefault(Stored(k).audio_duration, 0)
                      /\ rb_script[k].timeline_shift
                           = rb_script[k].start_time - GetDefault(Stored(k).start_time, 0)
                      /\ k < n => rb_script[k].pause_duration
                                    = GetDefault(Stored(k).pause_duration, 5000)
                      /\ k = n => rb_script[k].pause_duration = Stored(k).pause_duration
            /\ concat_list = ThreadedConcat(rb_script)

\* No upload_file call of this run returned None.
UploadsSucceeded ==
    /\ rb_result.final_url # "none"
    /\ \A k \in 1..Len(rb_script) :
          rb_script[k].id \in request.updates => rb_script[k].audio_url # "none"

\* The artifact of segment id has been uploaded by this run.
SegmentUploaded(id) ==
    \E u \in 1..Len(uploaded) : uploaded[u] = [kind |-> "segment", of |-> id]

\* C11: after a successful surgical rebuild every segment whose audio was
\* synthesized in it (edited, without audio source, or by the fallback) has
\* been uploaded and carries the uploaded location as audio_url, the new
\* master has been uploaded, and no sliced or fetched segment is uploaded.
C11_RegeneratedUploaded ==
    (rb_pc = "done" /\ UploadsSucceeded) =>
        /\ \E u \in 1..Len(uploaded) : uploaded[u].kind = "master"
        /\ \A k \in 1..Len(processed) :
              IF processed[k].strategy \in {"regenerate", "fallback"}
              THEN /\ SegmentUploaded(processed[k].id)
                   /\ rb_script[k].audio_url = "gs:new_segment"
                   /\ repo.video_data.script[k].audio_url = "gs:new_segment"
              ELSE ~SegmentUploaded(processed[k].id)

\* C12: a surgical rebuild that raises has uploaded nothing and has not
\* updated the repository.
C12_NoPartialPersistence ==
    /\ [](rb_pc = "failed" => uploaded = <<>>)
    /\ [][repo' # repo => rb_pc' = "done"]_vars

----------------------------------------------------------------------------
(* Gap-Aware Assembler: properties *)

\* The window of step i: [timestamp_i, timestamp_{i+1}), or to the end of the
\* raw video for the last step.
WindowOf(i) ==
    <<VideoTimestampToSeconds(as_in.timestamps[i]),
      IF i < Len(as_in.timestamps) THEN VideoTimestampToSeconds(as_in.timestamps[i + 1])
      ELSE as_in.total_v_dur>>

\* The cleanup ranges in seconds, as a set.
CleanupRanges ==
    { <<VideoTimestampToSeconds(as_in.cleanup_segments[k].start_time),
        VideoTimestampToSeconds(as_in.cleanup_segments[k].end_time)>> :
      k \in 1..Len(as_in.cleanup_segments) }

\* The instant t lies in the half-open range r.
InRange(t, r) == r[1] <= t /\ t < r[2]

\* Two half-open ranges share an instant.
Overlap(r, q) == Max(r[1], q[1]) < Min(r[2], q[2])

\* Every instant at which membership in a range of the step can change.
Breakpoints(clip) ==
    {clip.window[1], clip.window[2]}
      \cup {g[1] : g \in CleanupRanges} \cup {g[2] : g \in CleanupRanges}
      \cup {clip.valid_ranges[j][1] : j \in 1..Len(clip.valid_ranges)}
      \cup {clip.valid_ranges[j][2] : j \in 1..Len(clip.valid_ranges)}

\* C13: for every step the valid sub-windows are ascending, pairwise disjoint,
\* contained in the window [timestamp_i, timestamp_{i+1}) (to the end of the
\* video for the last step), intersect no cleanup range, and their union is
\* exactly the window minus the cleanup ranges; window [8, 20) with cleanup
\* [10, 15] gives [8, 10) and [15, 20).
C13_ValidSubWindows ==
    \A i \in 1..Len(step_clips) :
        LET clip  == step_clips[i]
            valid == clip.valid_ranges
            w     == WindowOf(i)
        IN  /\ clip.window = w
            /\ \A j \in 1..Len(valid) :
                  /\ valid[j][1] < valid[j][2]
                  /\ w[1] <= valid[j][1] /\ valid[j][2] <= w[2]
                  /\ j < Len(valid) => valid[j][2] <= valid[j + 1][1]
                  /\ \A g \in CleanupRanges : ~Overlap(valid[j], g)
            /\ \A t \in Breakpoints(clip) :
                  InRange(t, w) =>
                      ((\E j \in 1..Len(valid) : InRange(t, valid[j]))
                         <=> ~(\E g \in CleanupRanges : InRange(t, g)))
            /\ (w = <<80000, 200000>> /\ CleanupRanges = {<<100000, 150000>>})
                  => valid = << <<80000, 100000>>, <<150000, 200000>> >>

\* C13 witness: the window [8, 20) with the cleanup ranges [10, 15], the
\* nested [12, 13] and [14, 22], which reaches past the window, leaves [8, 10).
C13_Witness ==
    \E i \in 1..Len(step_clips) :
        /\ step_clips[i].window = <<80000, 200000>>
        /\ CleanupRanges = {<<100000, 150000>>, <<120000, 130000>>, <<140000, 220000>>}
        /\ step_clips[i].valid_ranges = << <<80000, 100000>> >>

\* The cuts a step took out of its sub-windows (not the fallback clip).
SubCuts(clip) == IF clip.fallback THEN <<>> ELSE clip.cuts

\* Total length of the cuts that start before instant t.
CutBefore(clip, t) ==
    LET before == SelectSeq(SubCuts(clip), LAMBDA c : c.start < t)
        RECURSIVE Total(_)
        Total(cs) == IF Len(cs) = 0 THEN 0 ELSE (cs[1].end - cs[1].start) + Total(Tail(cs))
    IN  Total(before)

\* Total length of the sub-windows that are at least least long.
ValidLength(clip, least) ==
    LET long == SelectSeq(clip.valid_ranges, LAMBDA r : r[2] - r[1] >= least)
        RECURSIVE Total(_)
        Total(rs) == IF Len(rs) = 0 THEN 0 ELSE (rs[1][2] - rs[1][1]) + Total(Tail(rs))
    IN  Total(long)

\* The cuts are taken left to right, each at the start of a sub-window with
\* length min(available, a - accumulated), and none once a is reached.
CutsGreedy(clip) ==
    LET cuts == SubCuts(clip)
    IN  /\ \A j \in 1..Len(cuts) :
              /\ j < Len(cuts) => cuts[j].start < cuts[j + 1].start
              /\ CutBefore(clip, cuts[j].start) < clip.a_dur
              /\ \E i \in 1..Len(clip.valid_ranges) :
                    /\ cuts[j].start = clip.valid_ranges[i][1]
                    /\ cuts[j].end - cuts[j].start
                         = Min(clip.valid_ranges[i][2] - clip.valid_ranges[i][1],
                               clip.a_dur - CutBefore(clip, cuts[j].start))
        /\ clip.current_v_dur = CutBefore(clip, clip.window[2] + 1)
        /\ clip.current_v_dur <= clip.a_dur

\* C14 as stated: the sub-windows are consumed left to right, each cut at the
\* sub-window's start with length min(available, a - accumulated); the
\* accumulated duration never exceeds a, consumption stops once it reaches a,
\* and whenever the sub-windows total at least a the accumulated duration
\* equals a.
C14_GreedyConsumption ==
    \A i \in 1..Len(step_clips) :
        LET clip == step_clips[i]
        IN  /\ CutsGreedy(clip)
            /\ ValidLength(clip, 0) >= clip.a_dur => clip.current_v_dur = clip.a_dur

\* C14 amended: as C14, except that a sub-window is skipped when
\* min(available, a - accumulated) is below 0.05 s, and whenever the
\* sub-windows of at least 0.05 s total at least a the accumulated duration
\* is greater than a - 0.05 s.
C14_GreedyConsumptionSkippingSlivers ==
    \A i \in 1..Len(step_clips) :
        LET clip == step_clips[i]
        IN  /\ CutsGreedy(clip)
            /\ \A k \in 1..Len(clip.valid_ranges) :
                  LET r   == clip.valid_ranges[k]
                      acc == CutBefore(clip, r[1])
                  IN  \/ \E j \in 1..Len(SubCuts(clip)) : SubCuts(clip)[j].start = r[1]
                      \/ acc >= clip.a_dur
                      \/ Min(r[2] - r[1], clip.a_dur - acc) < 500
            /\ ValidLength(clip, 500) >= clip.a_dur
                  => clip.current_v_dur > clip.a_dur - 500

\* C14 witness: with audio of 5.0 s the sub-windows [8, 10) and [15, 20) were
\* cut as [8, 10) and [15, 18).
C14_Witness ==
    \E i \in 1..Len(step_clips) :
        /\ step_clips[i].a_dur = 50000
        /\ step_clips[i].valid_ranges = << <<80000, 100000>>, <<150000, 200000>> >>
        /\ step_clips[i].cuts = <<[start |-> 80000, end |-> 100000],
                                  [start |-> 150000, end |-> 180000]>>
        /\ step_clips[i].current_v_dur = 50000

\* C15: the frozen clip is max(c, a) long: a base clip shorter than the audio
\* has its last frame held for exactly a - c, a base clip at least as long is
\* passed through unchanged; so every final clip is at least as long as its
\* audio, and a 2.0 s clip with target 5.0 s becomes 5.0 s by a 3.0 s hold.
C15_FreezeToDuration ==
    \A i \in 1..Len(step_clips) :
        LET clip == step_clips[i]
        IN  /\ clip.length = Max(clip.base, clip.a_dur)
            /\ clip.base < clip.a_dur => clip.hold = clip.a_dur - clip.base
            /\ clip.base >= clip.a_dur => clip.hold = 0 /\ clip.length = clip.base
            /\ clip.length >= clip.a_dur
            /\ (clip.base = 20000 /\ clip.a_dur = 50000)
                  => clip.length = 50000 /\ clip.hold = 30000

\* C15 witness: a 2.0 s base clip with 5.0 s of audio was held for 3.0 s, and
\* a 0.1 s base clip with 0.03 s of audio was passed through.
C15_Witness ==
    /\ \E i \in 1..Len(step_clips) :
          /\ step_clips[i].base = 20000
          /\ step_clips[i].a_dur = 50000
          /\ step_clips[i].hold = 30000
          /\ step_clips[i].length = 50000
    /\ \E i \in 1..Len(step_clips) :
          /\ step_clips[i].base = 1000
          /\ step_clips[i].a_dur = 300
          /\ step_clips[i].length = 1000

\* The invocations of the final concatenation into output_path.
FinalConcats == {k \in 1..Len(as_calls) : as_calls[k].tool = "concat_final"}

\* No tool invocation has failed so far.
NoToolFailed == \A k \in 1..Len(as_calls) : as_calls[k].ok

\* C16: while no tool fails, the assembly appends exactly one final clip per
\* script step, in script order (a 0.1 s clip at the nominal timestamp when no
\* sub-window yielded a cut, so that every step yields a clip), and it
\* concatenates exactly once, after the last step, those clips in that order.
C16_OneClipPerStepInOrder ==
    NoToolFailed =>
        /\ Len(step_clips) <= Len(as_in.timestamps)
        /\ \A i \in 1..Len(step_clips) :
              /\ step_clips[i].idx = i
              /\ step_clips[i].fallback <=> step_clips[i].current_v_dur = 0
              /\ step_clips[i].fallback =>
                    step_clips[i].cuts
                      = <<[start |-> VideoTimestampToSeconds(as_in.timestamps[i]),
                           end   |-> VideoTimestampToSeconds(as_in.timestamps[i]) + 1000]>>
        /\ as_pc # "done" => (FinalConcats = {} /\ as_output = "none")
        /\ as_pc = "done" =>
              /\ Len(step_clips) = Len(as_in.timestamps)
              /\ FinalConcats = {Len(as_calls)}
              /\ as_output = [i \in 1..Len(as_in.timestamps) |-> i]

\* C16 witness: a two-step assembly has finished; its first step fell back to
\* the 0.1 s clip and its second step cut from a sub-window.
C16_Witness ==
    /\ as_pc = "done"
    /\ Len(step_clips) = 2
    /\ as_output = <<1, 2>>
    /\ step_clips[1].fallback
    /\ ~step_clips[2].fallback

\* C17: once a tool invocation exits non-zero the assembly has raised: that
\* invocation is the last one made, no step after it is processed, output_path
\* is not written, and the error carries the command and at most the first
\* 4000 characters of stderr.
C17_AbortOnToolFailure ==
    /\ ~NoToolFailed <=> as_pc = "failed"
    /\ as_pc = "failed" =>
          LET last == as_calls[Len(as_calls)]
          IN  /\ ~last.ok
              /\ \A k \in 1..(Len(as_calls) - 1) :
                    as_calls[k].ok /\ as_calls[k].step <= last.step
              /\ Len(step_clips) < Max(last.step, 1)
              /\ as_output = "none"
              /\ as_error.type = "RuntimeError"
              /\ as_error.cmd = last.tool
              /\ as_error.step = last.step
              /\ as_error.stderr <= 4000
              /\ as_error.stderr
                   = (IF as_error.stderr_full <= 4000 THEN as_error.stderr_full ELSE 4000)

\* C17 witness: the first step of a two-step assembly failed in a cut with a
\* stderr of 4001 characters.
C17_Witness ==
    /\ as_pc = "failed"
    /\ Len(as_in.timestamps) = 2
    /\ as_error.step = 1
    /\ as_error.cmd = "cut_segment"
    /\ as_error.stderr_full = 4001
    /\ as_error.stderr = 4000
    /\ step_clips = <<>>

\* C18: when an engine operation has returned or raised, every temporary
\* directory it created has been removed.
C18_TempDirsRemoved ==
    /\ as_pc \in {"done", "failed"} =>
          (tmp_dirs.steps # "exists" /\ tmp_dirs.final_concat = 0)
    /\ rb_pc \in {"done", "failed"} => workspace # "open"

----------------------------------------------------------------------------
(* Interval arithmetic: properties *)

\* The instant t lies in one of the ranges of the sequence rs.
Covered(t, rs) == \E k \in 1..Len(rs) : InRange(t, rs[k])

\* Every instant at which membership in the input or output ranges can change.
IntervalBreakpoints ==
    {0, iv_in.duration}
      \cup {iv_in.ranges[k][1] : k \in 1..Len(iv_in.ranges)}
      \cup {iv_in.ranges[k][2] : k \in 1..Len(iv_in.ranges)}
      \cup {iv_out.ranges[k][1] : k \in 1..Len(iv_out.ranges)}
      \cup {iv_out.ranges[k][2] : k \in 1..Len(iv_out.ranges)}

\* The output ranges are non-empty, ascending and more than gap apart: two
\* ranges stay apart exactly when the next starts after current.end + gap.
MergedApart(rs, gap) ==
    \A j \in 1..Len(rs) :
        /\ rs[j][1] < rs[j][2]
        /\ j < Len(rs) => rs[j][2] + gap < rs[j + 1][1]

\* C19 as stated: merge_intervals returns ranges ascending by start and
\* pairwise disjoint, whose union equals the union of the inputs; two ranges
\* are merged exactly when next.start <= current.end + gap; an empty input
\* gives an empty output.
C19_MergeUnionExact ==
    iv_pc = "merged" =>
        /\ MergedApart(iv_out.ranges, iv_out.gap)
        /\ \A t \in IntervalBreakpoints :
              Covered(t, iv_out.ranges) <=> Covered(t, iv_in.ranges)
        /\ iv_in.ranges = <<>> => iv_out.ranges = <<>>

\* C19 amended: the union of the output contains the union of the inputs and
\* exceeds it only by the stretches of at most gap between two inputs that
\* were merged; the rest as stated.
C19_MergeUnionBridged ==
    iv_pc = "merged" =>
        /\ MergedApart(iv_out.ranges, iv_out.gap)
        /\ \A t \in IntervalBreakpoints :
              /\ Covered(t, iv_in.ranges) => Covered(t, iv_out.ranges)
              /\ (Covered(t, iv_out.ranges) /\ ~Covered(t, iv_in.ranges)) =>
                    \E a, b \in 1..Len(iv_in.ranges) :
                        /\ iv_in.ranges[a][2] <= t
                        /\ t < iv_in.ranges[b][1]
                        /\ iv_in.ranges[b][1] <= iv_in.ranges[a][2] + iv_out.gap
        /\ iv_in.ranges = <<>> => iv_out.ranges = <<>>

\* C19 witness: [10.03, 15) and [5, 10), handed over unsorted, were merged
\* with the default gap into [5, 15).
C19_Witness ==
    /\ iv_pc = "merged"
    /\ iv_out.gap = 500
    /\ iv_in.ranges = << <<100300, 150000>>, <<50000, 100000>> >>
    /\ iv_out.ranges = << <<50000, 150000>> >>

\* C20: for any cut ranges, also ones partly or wholly outside
\* [0, totalDuration], invert_to_keep returns keep ranges that are ascending,
\* pairwise disjoint, non-empty, contained in [0, totalDuration], disjoint from
\* every cut range, and that together with the cut ranges cover
\* [0, totalDuration] exactly.
C20_KeepComplementsCuts ==
    iv_pc = "inverted" =>
        LET keep == iv_out.ranges
        IN  /\ \A j \in 1..Len(keep) :
                  /\ keep[j][1] < keep[j][2]
                  /\ 0 <= keep[j][1] /\ keep[j][2] <= iv_in.duration
                  /\ j < Len(keep) => keep[j][2] <= keep[j + 1][1]
                  /\ \A k \in 1..Len(iv_in.ranges) : ~Overlap(keep[j], iv_in.ranges[k])
            /\ \A t \in IntervalBreakpoints :
                  InRange(t, <<0, iv_in.duration>>) =>
                      (Covered(t, keep) <=> ~Covered(t, iv_in.ranges))

\* The ranges are a merged cut set within [0, duration]: non-empty, ascending,
\* pairwise disjoint and inside the video.
MergedWithin(rs, duration) ==
    \A j \in 1..Len(rs) :
        /\ 0 <= rs[j][1] /\ rs[j][1] < rs[j][2] /\ rs[j][2] <= duration
        /\ j < Len(rs) => rs[j][2] <= rs[j + 1][1]

\* C21: for a merged cut set C within [0, totalDuration], inverting the keep
\* ranges of C gives C back up to the gap tolerance: an instant is lost only
\* with a cut no longer than the gap, it is gained only between two cuts no
\* further apart than the gap, and when every cut is longer than the gap and
\* further than the gap from the next the result is C itself.
C21_InvertInvolutive ==
    (iv_pc = "inverted_twice" /\ MergedWithin(iv_in.ranges, iv_in.duration)) =>
        LET C == iv_in.ranges
            R == iv_out.ranges
        IN  /\ \A t \in IntervalBreakpoints :
                  /\ (Covered(t, C) /\ ~Covered(t, R)) =>
                        \E k \in 1..Len(C) : InRange(t, C[k]) /\ C[k][2] - C[k][1] <= 500
                  /\ (Covered(t, R) /\ ~Covered(t, C)) =>
                        \E a, b \in 1..Len(C) :
                            /\ C[a][2] <= t /\ t < C[b][1]
                            /\ C[b][1] - C[a][2] <= 500
            /\ (\A k \in 1..Len(C) :
                    /\ C[k][2] - C[k][1] > 500
                    /\ k < Len(C) => C[k + 1][1] - C[k][2] > 500)
                  => R = C

\* C21 witness: the cuts [5, 10) and [14, 22) of a 25 s video were inverted
\* to the keep ranges and back.
C21_Witness ==
    /\ iv_pc = "inverted_twice"
    /\ iv_in.ranges = << <<50000, 100000>>, <<140000, 220000>> >>
    /\ iv_out.ranges = iv_in.ranges

----------------------------------------------------------------------------
(* Cleanup footage and the fallback clip *)

\* C25: no footage of a cleanup range reaches the output: every clip cut from
\* the raw video for a step, the 0.1 s fallback clip included, shares no
\* instant with a cleanup range.
C25_NoCleanupFootage ==
    \A i \in 1..Len(step_clips) :
        \A c \in 1..Len(step_clips[i].cuts) :
            \A g \in CleanupRanges :
                ~Overlap(<<step_clips[i].cuts[c].start, step_clips[i].cuts[c].end>>, g)

----------------------------------------------------------------------------
(* Surgical Rebuilder: completion, narration timeline, stored locations *)

\* Where a call to something outside the use case failed: a synthesis, a
\* download, a media tool, or the repository.
ExternalFailures ==
    {"probe_master", "synthesize", "slice", "probe_segment", "http_download",
     "concat", "repo_update"}

\* C26: a rebuild of an existing video by its owner, with a script of n >= 1
\* segments, completes when nothing external fails: it only ends in an
\* exception when a synthesis, download, media-tool or repository call failed.
C26_CompletesUnlessExternalFailure ==
    (/\ rb_pc = "failed"
     /\ repo.exists
     /\ repo.created_by = request.user_id
     /\ rb_error.at # "load"
     /\ Len(repo.video_data.script) >= 1) => rb_error.at \in ExternalFailures

\* C28: a rebuild never persists a missing audio location: whenever the
\* record has been updated, processed_audio_url is the location of the
\* uploaded new master and the audio_url of every edited segment is the
\* location of its uploaded artifact, and both uploads are on record.
C28_NoMissingLocationPersisted ==
    rb_pc = "done" =>
        /\ repo.video_data.processed_audio_url = "gs:new_master"
        /\ \E u \in 1..Len(uploaded) : uploaded[u].kind = "master"
        /\ \A k \in 1..Len(repo.video_data.script) :
              repo.video_data.script[k].id \in request.updates =>
                  /\ repo.video_data.script[k].audio_url = "gs:new_segment"
                  /\ SegmentUploaded(repo.video_data.script[k].id)

\* C27: after a rebuild the narration timeline agrees with the re-timed
\* audio: each segment's narration_end - narration_start is its new
\* audio_duration + pause_duration, each narration_end is the next
\* narration_start, and the last narration_end is the sum of
\* audio_duration + pause_duration over the script.
C27_NarrationFollowsRebuild ==
    rb_pc = "done" =>
        LET sc == repo.video_data.script
        IN  /\ \A i \in 1..Len(sc) :
                  /\ sc[i].narration_end - sc[i].narration_start
                        = GetOr0(sc[i].audio_duration) + GetOr0(sc[i].pause_duration)
                  /\ i < Len(sc) => sc[i].narration_end = sc[i + 1].narration_start
            /\ Len(sc) > 0 =>
                  sc[Len(sc)].narration_end = SumOver(sc, 1..Len(sc), 1)

----------------------------------------------------------------------------
(* Existence and ownership checks at the boundary *)

\* Nothing of the rebuild has happened: no workspace, no synthesis, no
\* download, no upload.
NothingStarted ==
    /\ workspace = "none"
    /\ synthesized = <<>>
    /\ processed = <<>>
    /\ uploaded = <<>>
    /\ fetch_failed = {}
    /\ ~master.local

\* C24: execute_batch on an unknown video id raises the not-found error and on
\* a video of another user the unauthorized error, in both cases before any
\* workspace is created, any audio is synthesized, downloaded or uploaded and
\* any record is written; they reach the API caller as 404 and 403.
C24_BoundaryErrors ==
    /\ [](rb_pc \notin {"idle", "start"} =>
            /\ ~repo.exists =>
                  /\ rb_pc = "failed" /\ rb_error = [type |-> "ValueError", at |-> "load"]
                  /\ HttpStatus(rb_error.type) = 404
                  /\ NothingStarted
            /\ (repo.exists /\ repo.created_by # request.user_id) =>
                  /\ rb_pc = "failed" /\ rb_error = [type |-> "PermissionError", at |-> "load"]
                  /\ HttpStatus(rb_error.type) = 403
                  /\ NothingStarted)
    /\ [][rb_error'.at = "load" => repo' = repo]_vars

----------------------------------------------------------------------------
(* _timestamp_to_seconds of NarrationPipeline and of VideoService *)

\* The values a field of a timestamp takes, in hundredths: "00", "01", "02",
\* "03", "08.03" and "59".
TimestampFields == {0, 100, 200, 300, 803, 5900}

\* "SS", "MM:SS" and "HH:MM:SS"; hours and minutes are whole numbers.
TimestampStrings ==
    [1..1 -> TimestampFields]
      \cup {ts \in [1..2 -> TimestampFields] : ts[1] % 100 = 0}
      \cup {ts \in [1..3 -> TimestampFields] : ts[1] % 100 = 0 /\ ts[2] % 100 = 0}

InitTimestamps ==
    /\ ResolverIdle
    /\ RebuildIdle
    /\ VideoIdle
    /\ BackgroundIdle
    /\ ConcurrentIdle
    /\ ts_pc = "input"
    /\ ts_in \in TimestampStrings
    /\ ts_out = [pipeline |-> NoVal, video |-> NoVal]

\* NarrationPipeline._timestamp_to_seconds(ts)
ParsePipeline ==
    /\ ts_pc = "input"
    /\ ts_out.pipeline = NoVal
    /\ ts_out' = [ts_out EXCEPT !.pipeline = TimestampToSeconds(ts_in)]
    /\ UNCHANGED <<ts_pc, ts_in>>
    /\ UNCHANGED <<resolverVars, rebuildVars, videoVars, backgroundVars, concurrentVars>>

\* VideoService._timestamp_to_seconds(ts)
ParseVideo ==
    /\ ts_pc = "input"
    /\ ts_out.video = NoVal
    /\ ts_out' = [ts_out EXCEPT !.video = VideoTimestampToSeconds(ts_in)]
    /\ UNCHANGED <<ts_pc, ts_in>>
    /\ UNCHANGED <<resolverVars, rebuildVars, videoVars, backgroundVars, concurrentVars>>

NextTimestamps == ParsePipeline \/ ParseVideo

SpecTimestamps == InitTimestamps /\ [][NextTimestamps]_vars

\* What the timestamp format means: minutes*60 + seconds for MM:SS,
\* hours*3600 + minutes*60 + seconds for HH:MM:SS.
SecondsMeant(ts) ==
    IF Len(ts) = 2
    THEN (ts[1] \div 100) * 60 * TicksPerSecond + ts[2] * TicksPerCs
    ELSE (ts[1] \div 100) * 3600 * TicksPerSecond
           + (ts[2] \div 100) * 60 * TicksPerSecond + ts[3] * TicksPerCs

\* C22: both _timestamp_to_seconds functions parse MM:SS as
\* minutes*60 + seconds and HH:MM:SS as hours*3600 + minutes*60 + seconds.
C22_TimestampParsing ==
    Len(ts_in) \in {2, 3} =>
        /\ ts_out.pipeline # NoVal => ts_out.pipeline = SecondsMeant(ts_in)
        /\ ts_out.video # NoVal => ts_out.video = SecondsMeant(ts_in)

----------------------------------------------------------------------------
(* run_pipeline_background (api/v1/endpoints/videos.py) around
   NarrationPipeline.run *)

\* A segment of analysis_result["script_timeline"]; the generator may or may
\* not have given it an id.
GeneratedSegment(i, has_id) ==
    [id |-> IF has_id THEN i ELSE NoVal, timestamp |-> <<0, 200 * (i - 1)>>,
     pause_duration |-> 5000, isDeleted |-> FALSE,
     start_time |-> NoVal, duration |-> NoVal, end_time |-> NoVal,
     audio_duration |-> NoVal, narration_start |-> NoVal, narration_end |-> NoVal,
     audio_url |-> "none"]

\* generate_voiceover: if 'id' not in entry: entry['id'] = uuid.uuid4().hex[:8];
\* the fresh id of entry i is written 100 + i.
WithIds(sc) ==
    [i \in 1..Len(sc) |-> IF sc[i].id = NoVal THEN [sc[i] EXCEPT !.id = 100 + i] ELSE sc[i]]

\* script[i]["audio_url"] = audio["filename"] in local mode, the value
\* upload_asset returned otherwise: None for the uploads that failed.
WithAudioUrls(sc, use_local, failing) ==
    [i \in 1..Len(sc) |->
        [sc[i] EXCEPT !.audio_url = IF use_local THEN "file:voiceover"
                                    ELSE IF i \in failing THEN "none"
                                    ELSE "gs:voiceover"]]

\* use_case.execute(user_id=..., video_id=..., title=..., video_uri=...,
\* metadata=..., status="completed"): CreateVideoUseCase.execute takes
\* (user_id, video_id, title, video_uri, metadata) only.
CreateVideoExecute(kwargs) ==
    IF kwargs \subseteq {"user_id", "video_id", "title", "video_uri", "metadata"}
    THEN "saved" ELSE "TypeError"

\* The task is started for a record that upload_complete saved as 'processing'.
InitBackground ==
    /\ ResolverIdle
    /\ RebuildIdle
    /\ VideoIdle
    /\ TimestampIdle
    /\ ConcurrentIdle
    /\ bg_pc = "start"
    /\ \E use_local \in BOOLEAN :
         \/ bg_env = [use_local |-> use_local, has_script |-> FALSE, analysis |-> <<>>,
                      probes |-> <<>>]
         \/ \E n \in 0..MaxSegs :
              \E has_id \in [1..n -> BOOLEAN], probes \in [1..n -> ProbeDurations] :
                bg_env = [use_local |-> use_local, has_script |-> TRUE,
                          analysis |-> [i \in 1..n |-> GeneratedSegment(i, has_id[i])],
                          probes |-> probes]
    /\ bg_script = <<>>
    /\ bg_saved = [written |-> FALSE, script |-> <<>>]
    /\ bg_record = [status |-> "processing", has_script |-> FALSE, script |-> <<>>]
    /\ bg_failure = {}

\* except Exception: repo.update(video_id, status="failed") inside try/except:
\* pass; also the `if not results` branch, whose update is followed by the
\* same handler when it raises.  The update writes the status, or raises
\* before it has written.
MarkFailed(step) ==
    /\ bg_failure' = bg_failure \cup {step}
    /\ bg_pc' = "ended"
    /\ \/ bg_record' = [bg_record EXCEPT !.status = "failed"]
       \/ UNCHANGED bg_record

\* pipeline.download_video(video_uri)
BgDownload ==
    /\ bg_pc = "start"
    /\ \/ /\ bg_pc' = "analyze"
          /\ UNCHANGED <<bg_record, bg_failure>>
       \/ MarkFailed("download")
    /\ UNCHANGED <<bg_env, bg_script, bg_saved>>
    /\ UNCHANGED <<resolverVars, rebuildVars, videoVars, timestampVars, concurrentVars>>

\* analyze_video_full_pipeline; run returns None without a script_timeline.
BgAnalyze ==
    /\ bg_pc = "analyze"
    /\ IF ~bg_env.has_script
       THEN /\ MarkFailed("no_script")
            /\ UNCHANGED bg_script
       ELSE /\ bg_script' = bg_env.analysis
            /\ bg_pc' = "synthesize"
            /\ UNCHANGED <<bg_record, bg_failure>>
    /\ UNCHANGED <<bg_env, bg_saved>>
    /\ UNCHANGED <<resolverVars, rebuildVars, videoVars, timestampVars, concurrentVars>>

\* generate_voiceover(script, ...)
BgSynthesize ==
    /\ bg_pc = "synthesize"
    /\ \/ /\ bg_script' = WithIds(bg_script)
          /\ bg_pc' = "timeline"
          /\ UNCHANGED <<bg_record, bg_failure>>
       \/ /\ MarkFailed("synthesize")
          /\ UNCHANGED bg_script
    /\ UNCHANGED <<bg_env, bg_saved>>
    /\ UNCHANGED <<resolverVars, rebuildVars, videoVars, timestampVars, concurrentVars>>

\* resolve_timeline, compute_narration_timeline, validate_narration_timeline
BgTimeline ==
    /\ bg_pc = "timeline"
    /\ \/ LET af == [i \in 1..Len(bg_script) |-> AudioFile(bg_script[i], bg_env.probes[i])]
          IN  /\ bg_script' = ComputeNarrationTimeline(ResolveTimeline(af, bg_script).sc)
              /\ bg_pc' = "assemble"
              /\ UNCHANGED <<bg_record, bg_failure>>
       \/ \* ffprobe on a voiceover file exited non-zero
          /\ Len(bg_script) > 0
          /\ MarkFailed("probe")
          /\ UNCHANGED bg_script
    /\ UNCHANGED <<bg_env, bg_saved>>
    /\ UNCHANGED <<resolverVars, rebuildVars, videoVars, timestampVars, concurrentVars>>

\* video_service.assemble_steps(...)
BgAssemble ==
    /\ bg_pc = "assemble"
    /\ \/ /\ bg_pc' = "concat"
          /\ UNCHANGED <<bg_record, bg_failure>>
       \/ MarkFailed("assemble")
    /\ UNCHANGED <<bg_env, bg_script, bg_saved>>
    /\ UNCHANGED <<resolverVars, rebuildVars, videoVars, timestampVars, concurrentVars>>

\* audio_service.concat_audio_files(...)
BgConcat ==
    /\ bg_pc = "concat"
    /\ \/ /\ bg_pc' = "save"
          /\ UNCHANGED <<bg_record, bg_failure>>
       \/ MarkFailed("concat")
    /\ UNCHANGED <<bg_env, bg_script, bg_saved>>
    /\ UNCHANGED <<resolverVars, rebuildVars, videoVars, timestampVars, concurrentVars>>

\* The upload of the voiceovers (or the local paths), then
\* save_script(project_config, script_file).
BgSaveScript ==
    /\ bg_pc = "save"
    /\ \E failing \in SUBSET (1..Len(bg_script)) :
         /\ bg_env.use_local => failing = {}
         /\ LET sc == WithAudioUrls(bg_script, bg_env.use_local, failing)
            IN  /\ bg_script' = sc
                /\ bg_saved' = [written |-> TRUE, script |-> sc]
         /\ bg_failure' = IF failing = {} THEN bg_failure ELSE bg_failure \cup {"upload"}
    /\ bg_pc' = "record"
    /\ UNCHANGED <<bg_env, bg_record>>
    /\ UNCHANGED <<resolverVars, rebuildVars, videoVars, timestampVars, concurrentVars>>

\* The upload of the final video and audio, get_duration(final_video_path)
\* and use_case.execute(..., status="completed"); then run returns.
BgRecord ==
    /\ bg_pc = "record"
    /\ \/ \* ffprobe on the final video exited non-zero
          MarkFailed("duration")
       \/ LET r == CreateVideoExecute({"user_id", "video_id", "title", "video_uri",
                                       "metadata", "status"})
          IN  IF r = "saved"
              THEN /\ bg_record' = [status |-> "processing", has_script |-> TRUE,
                                     script |-> bg_script]
                   /\ bg_pc' = "ended"
                   /\ UNCHANGED bg_failure
              ELSE MarkFailed(r)
    /\ UNCHANGED <<bg_env, bg_script, bg_saved>>
    /\ UNCHANGED <<resolverVars, rebuildVars, videoVars, timestampVars, concurrentVars>>

NextBackground ==
    BgDownload \/ BgAnalyze \/ BgSynthesize \/ BgTimeline \/ BgAssemble \/ BgConcat
        \/ BgSaveScript \/ BgRecord

SpecBackground == InitBackground /\ [][NextBackground]_vars

\* C23: when run saves the script, every segment of the saved script carries
\* id, timestamp, start_time, end_time, audio_duration, narration_start,
\* narration_end and audio_url, each with a value.
C23_SavedScriptFields ==
    bg_saved.written =>
        \A i \in 1..Len(bg_saved.script) :
            LET seg == bg_saved.script[i]
            IN  /\ seg.id # NoVal
                /\ Len(seg.timestamp) > 0
                /\ seg.start_time # NoVal
                /\ seg.end_time # NoVal
                /\ seg.audio_duration # NoVal
                /\ seg.narration_start # NoVal
                /\ seg.narration_end # NoVal
                /\ seg.audio_url # "none"

\* The steps whose failure the task has to report: the download, the script
\* generation, the synthesis, the media tools, the uploads.
StepFailures ==
    {"download", "no_script", "synthesize", "probe", "assemble", "concat", "upload",
     "duration"}

\* C30: the background task leaves the record in a final status: 'completed'
\* with the final script when every step succeeded, 'failed' only when a step
\* failed or no script could be generated, never 'processing'.
C30_FinalStatus ==
    bg_pc = "ended" =>
        /\ bg_record.status \in {"completed", "failed"}
        /\ bg_failure \cap StepFailures = {} =>
              /\ bg_record.status = "completed"
              /\ bg_record.has_script
              /\ bg_record.script = bg_script
        /\ bg_record.status = "failed" => bg_failure \cap StepFailures # {}

----------------------------------------------------------------------------
(* Two execute_batch calls on the same video at the same time *)

\* The stored script, as far as the edits are concerned.
StoredTexts(n) == [i \in 1..n |-> [id |-> i, voiceover_text |-> "old"]]

\* Two requests arrive for a stored video; each edits some of its segments.
InitConcurrent ==
    /\ ResolverIdle
    /\ RebuildIdle
    /\ VideoIdle
    /\ TimestampIdle
    /\ BackgroundIdle
    /\ \E n \in 1..MaxRebuildSegs, impl \in RepositoryImpls :
         /\ cc_repo = [impl |-> impl, exists |-> TRUE, script |-> StoredTexts(n)]
         /\ \E u1, u2 \in SUBSET (1..n) :
              cc_calls = << [pc |-> "start", updates |-> u1, script |-> <<>>, error |-> "none"],
                            [pc |-> "start", updates |-> u2, script |-> <<>>, error |-> "none"] >>

\* _load_and_validate_video and script = video.video_data.get("script", []):
\* the call works on its own copy of the stored script.
CcLoad(c) ==
    /\ cc_calls[c].pc = "start"
    /\ cc_calls' = [cc_calls EXCEPT ![c] =
                      IF GetById(cc_repo) = "none"
                      THEN [@ EXCEPT !.pc = "failed", !.error = "ValueError"]
                      ELSE [@ EXCEPT !.pc = "rebuild", !.script = cc_repo.script]]
    /\ UNCHANGED cc_repo
    /\ UNCHANGED <<resolverVars, rebuildVars, videoVars, timestampVars, backgroundVars>>

RECURSIVE WithNewTexts(_, _, _)
\* _process_segments: segment["voiceover_text"] = voice_text for every edit.
WithNewTexts(sc, updates, i) ==
    IF i > Len(sc) THEN sc
    ELSE WithNewTexts(WithNewText(sc, i, sc[i].id \in updates), updates, i + 1)

\* _prepare_master_audio, _process_segments and _rebuild_and_export_timeline
\* on the call's own workspace and copy of the script.
CcRebuild(c) ==
    /\ cc_calls[c].pc = "rebuild"
    /\ LET sc == WithNewTexts(cc_calls[c].script, cc_calls[c].updates, 1)
       IN  \/ \* a synthesis, a download or a media tool failed
              cc_calls' = [cc_calls EXCEPT ![c].pc = "failed", ![c].script = sc,
                                           ![c].error = "Exception"]
           \/ cc_calls' = [cc_calls EXCEPT ![c] =
                             IF Len(sc) >= 2 /\ GenerateSilence(RebuildGap) # "ok"
                             THEN [@ EXCEPT !.pc = "failed", !.script = sc,
                                            !.error = GenerateSilence(RebuildGap)]
                             ELSE [@ EXCEPT !.pc = "persist", !.script = sc]]
    /\ UNCHANGED cc_repo
    /\ UNCHANGED <<resolverVars, rebuildVars, videoVars, timestampVars, backgroundVars>>

\* _persist_updates: video_repo.update(video_id, video_data={"script": script,
\* ...}) stores the call's whole copy of the script.
CcPersist(c) ==
    /\ cc_calls[c].pc = "persist"
    /\ cc_repo' = [cc_repo EXCEPT !.script = cc_calls[c].script]
    /\ cc_calls' = [cc_calls EXCEPT ![c].pc = "done"]
    /\ UNCHANGED <<resolverVars, rebuildVars, videoVars, timestampVars, backgroundVars>>

NextConcurrent == \E c \in 1..2 : CcLoad(c) \/ CcRebuild(c) \/ CcPersist(c)

SpecConcurrent == InitConcurrent /\ [][NextConcurrent]_vars

\* C29: concurrent rebuilds do not lose edits: when two execute_batch calls on
\* the same video, editing different segments, overlap in any interleaving,
\* the script stored after both have finished contains the new texts of both.
C29_NoLostEdits ==
    (/\ Len(cc_calls) = 2
     /\ \A c \in 1..2 : cc_calls[c].pc \in {"done", "failed"}
     /\ cc_calls[1].updates \cap cc_calls[2].updates = {}) =>
        \A c \in 1..2 :
            \A i \in cc_calls[c].updates : cc_repo.script[i].voiceover_text = "new"

=============================================================================
